---- MODULE Spec2Model ----
(***************************************************************************)
(* Wayback domain analysis: the bounded-concurrency batch orchestrator     *)
(* (analyzeDomainsForSpam / analyzeDomainsComplete), the per-domain spam   *)
(* and complete pipelines (analyzeDomainForSpam / analyzeDomainComplete),  *)
(* the archive client's snapshot cache and the complete-analysis status    *)
(* feed.                                                                   *)
(*                                                                         *)
(* One step of the model is one run of JavaScript between two points where *)
(* the event loop can schedule another macrotask: a step starts when a     *)
(* network call or a timer of a task completes and runs up to the next     *)
(* network call or timer, including every continuation that is resumed by  *)
(* an already settled promise (microtasks).                                *)
(***************************************************************************)
EXTENDS Integers, Sequences, FiniteSets, TLC

\* ------------------------------------------------------------------ bounds
MaxDomains == 3
MaxConcurrent == 2
MaxSnapshots == 2

\* --------------------------------------------------------------- constants
Modes == {"spam", "complete"}

\* Statuses that end a run of the spam-only pipeline / of the complete pipeline.
SpamTerminal == {"NO_SNAPSHOTS", "UNAVAILABLE", "CLEAN", "SUSPICIOUS", "SPAM"}
CompleteTerminal == {"COMPLETE", "UNAVAILABLE", "NO_SNAPSHOTS"}

\* A page body is abstracted to the number of occurrences of each stop word
\* in its text; the empty body has no text at all.
EmptyHtml == <<>>
Pages == { <<0, 0, 0>>, <<1, 1, 0>>, <<3, 3, 0>>, <<2, 2, 2>> }
Bodies == Pages \cup {EmptyHtml}

\* Outcomes of one uncached getSnapshotHtml call: it throws (timeout,
\* exhausted retries, both strategies failed), or it returns a body.
Throw == [kind |-> "throw", html |-> EmptyHtml]
Served(b) == [kind |-> "html", html |-> b]
Outcomes == {Throw} \cup {Served(b) : b \in Bodies}

\* The outcomes explored when two domains are analysed at once, and when
\* more are: a plain and a spam page with failing fetches, one plain page
\* without.
FewOutcomes == {Throw, Served(<<0, 0, 0>>), Served(<<2, 2, 2>>)}
HealthyOutcomes == {Served(<<0, 0, 0>>)}

Min(a, b) == IF a < b THEN a ELSE b
Max(a, b) == IF a > b THEN a ELSE b

RECURSIVE SumSeq(_)
SumSeq(s) == IF s = <<>> THEN 0 ELSE Head(s) + SumSeq(Tail(s))

\* checkStopWords: the score of a text given its per-word occurrence counts.
SpamScore(page) ==
  LET u == Cardinality({w \in DOMAIN page : page[w] > 0})
      t == SumSeq(page)
      base == Min(10, u * 2)
  IN IF u = 0 THEN 0
     ELSE IF t > 10 THEN 10
     ELSE IF t > 5 THEN Min(10, base + 2)
     ELSE base

\* ------------------------------------------------------------------- state
VARIABLES
  mode,            \* which batch operation the session runs
  domains,         \* domainList: the trimmed, non-empty input domains
  maxConcurrent,   \* the maxConcurrent argument
  maxSnapshots,    \* the maxSnapshots argument
  archive,         \* the outcomes the archive has for a fetch in this session
  phase,           \* "idle", "running" (Promise.all pending) or "resolved"
  queue,           \* positions of domainList not yet started, FIFO
  active,          \* the Set `active` of domain names
  promises,        \* positions whose promises Promise.all waits for
  results,         \* the array `results`, in push order
  returned,        \* the list the batch operation resolved with
  pc,              \* per position: where its run is suspended
  loc,             \* per position: the locals of its pipeline run, with
                   \* fetchLog (every settled getSnapshotHtml call and the
                   \* body it returned),
                   \* spamIndex (the index's answer to analyzeDomainForSpam)
                   \* and spamStatus (the record analyzeDomainForSpam last
                   \* handed to its statusCallback after that answer)
  published,       \* per position: statuses passed to the status callback
  domainStatuses,  \* the session's status map, keyed by domain
  snapshotCache,   \* WaybackClient.snapshotCache
  cacheSets,       \* per cache key: the bodies of the snapshotCache.set calls, in order
  completeAnalysisResults, \* global.completeAnalysisResults of the session
  lastResultsHash, \* the complete feed's lastResultsHash
  completeEvent,   \* payload of the last 'complete' event ("domains")
  call,            \* one client call followed request by request
  stored,          \* global.domainStatusStorage has the session's status map
  feed,            \* the spam status feed: its consumer's connection, the
                   \* clean-up timers pending, the last statuses delivered
  calc             \* one evaluation of a function of the analysis: its
                   \* name, its arguments and, once applied, its result

vars == <<mode, domains, maxConcurrent, maxSnapshots, archive, phase, queue, active,
          promises, results, returned, pc, loc, published, domainStatuses,
          snapshotCache, cacheSets, completeAnalysisResults, lastResultsHash,
          completeEvent, call, stored, feed, calc>>

Tasks == 1..Len(domains)
DomainNames == {domains[t] : t \in Tasks}

\* Input lists up to renaming of the domains: the k-th distinct domain of a
\* list is called k (a list may name the same domain more than once).
Top(s) == IF s = <<>> THEN 0
          ELSE CHOOSE m \in {s[i] : i \in DOMAIN s} : \A i \in DOMAIN s : s[i] <= m

RECURSIVE DomainLists(_)
DomainLists(n) ==
  IF n = 0 THEN {<<>>}
  ELSE LET shorter == DomainLists(n - 1)
           longest == {x \in shorter : Len(x) = n - 1}
       IN shorter \cup
          {Append(p[1], p[2]) : p \in {q \in longest \X (1..n) : q[2] <= Top(q[1]) + 1}}

\* ----------------------------------------------------------- the client
\* The capture at position k of the list the index returned for a domain;
\* the pair stands for the cache key `${timestamp}|${originalUrl}`.
CacheKey(d, k) == <<d, k>>

\* getSnapshotHtml up to its first await: a cached entry is returned without
\* a network request, otherwise the request is issued.
CacheLookup(cache, key) ==
  IF key \in DOMAIN cache THEN [hit |-> TRUE, html |-> cache[key]]
  ELSE [hit |-> FALSE, html |-> EmptyHtml]

\* this.snapshotCache.set(cacheKey, result)
CacheSet(cache, key, html) ==
  [k \in DOMAIN cache \cup {key} |-> IF k = key THEN html ELSE cache[k]]

\* The record of that call: one more body set under the key.
LogSet(log, key, html) ==
  [k \in DOMAIN log \cup {key} |->
     IF k = key THEN Append(IF key \in DOMAIN log THEN log[key] ELSE <<>>, html)
     ELSE log[k]]

\* What a call of getSnapshotHtml that was suspended with `pending` can
\* resolve to: the cached entry, or any outcome of the network attempt.
Resolutions(pending) ==
  IF pending.hit THEN {Served(pending.html)} ELSE archive

\* -------------------------------------------------------- status records
QueuedStatus(d) ==
  IF mode = "spam"
  THEN [domain |-> d, status |-> "QUEUED", lastMessage |-> "Waiting to start...",
        snapshotsFound |-> 0, snapshotsAnalyzed |-> 0]
  ELSE [domain |-> d, status |-> "QUEUED", lastMessage |-> "Waiting to start..."]

\* updateStatus of analyzeDomainComplete called with one status object (as
\* the nested analyzeDomainForSpam calls it): the object's status is taken
\* and its other fields are dropped.
NormalizedStatus(rec) == [domain |-> rec.domain, status |-> rec.status]

\* A status record as analyzeDomainForSpam hands it to its statusCallback.
SpamPub(rec) == IF mode = "complete" THEN NormalizedStatus(rec) ELSE rec

SpamFetchingStatus(d) ==
  SpamPub([domain |-> d, status |-> "FETCHING_SNAPSHOTS",
           lastMessage |-> "Fetching snapshots from CDX API..."])

CompleteFetchingStatus(d) ==
  [domain |-> d, status |-> "FETCHING_SNAPSHOTS",
   lastMessage |-> "Fetching historical snapshots..."]

\* The status a run publishes when processDomain starts it.
StartStatus(d) ==
  IF mode = "spam" THEN SpamFetchingStatus(d) ELSE CompleteFetchingStatus(d)

StartPc == IF mode = "spam" THEN "sp_index" ELSE "cp_index"

RECURSIVE ApplyPubs(_, _)
\* domainStatuses.set(statusData.domain, statusData) for each record in turn
ApplyPubs(ds, pubs) ==
  IF pubs = <<>> THEN ds
  ELSE ApplyPubs([d \in DOMAIN ds \cup {Head(pubs).domain} |->
                    IF d = Head(pubs).domain THEN Head(pubs) ELSE ds[d]],
                 Tail(pubs))

StatusNames(pubs) == [k \in DOMAIN pubs |-> pubs[k].status]

\* ------------------------------------------------------ the orchestrator
\* A batch that starts every domain at once.
InitialBatchSizeAll(mc, n) == n

\* Number of domains the batch starts before it awaits Promise.all.
InitialBatchSize(mc, n) == Min(mc, n)

\* results.find(r => r.domain === domain)
FindResult(rs, d) ==
  LET hits == {k \in DOMAIN rs : rs[k].domain = d}
  IN IF hits = {} THEN 0 ELSE CHOOSE k \in hits : \A j \in hits : k <= j

Placeholder(d) ==
  IF mode = "spam"
  THEN [run |-> 0, domain |-> d, status |-> "UNAVAILABLE",
        error |-> "Analysis not completed",
        snapshotsFound |-> 0, snapshotsAnalyzed |-> 0]
  ELSE [run |-> 0, domain |-> d, status |-> "UNAVAILABLE",
        error |-> "Analysis not completed"]

\* "Sort results to match input order"
SortedResults(rs) ==
  [k \in DOMAIN domains |->
     IF FindResult(rs, domains[k]) = 0 THEN Placeholder(domains[k])
     ELSE rs[FindResult(rs, domains[k])]]

\* No client call is being followed.
NoCall == [op |-> "none"]

\* No function evaluation is being looked at.
NoCalc == [op |-> "none"]

\* No consumer has connected to the status feed yet.
NoFeed == [conn |-> "none", timers |-> 0, sent |-> <<>>]

InitLoc == [snapshots |-> 0, i |-> 0, successfullyAnalyzed |-> 0,
            failedSnapshots |-> 0, maxSpamScore |-> 0, snapshotErrors |-> <<>>,
            pending |-> [hit |-> FALSE, html |-> EmptyHtml],
            firstSnapshots |-> 0, snapshotsWithHtml |-> <<>>,
            fetchLog |-> <<>>, spamAnalysis |-> [status |-> "none"],
            spamIndex |-> [kind |-> "none", n |-> 0],
            spamStatus |-> [status |-> "none"],
            metricsPending |-> {}]

\* The state after the handler created the session and before the batch
\* operation runs.  Sessions explored: every list of up to MaxDomains
\* domains (repeated domains included, the longest list with distinct
\* domains and full concurrency only); captures beyond the first and the
\* full set of archive outcomes in single-domain sessions, failing fetches
\* in sessions of up to two domains.
Init ==
  /\ mode \in Modes
  /\ domains \in {s \in DomainLists(MaxDomains) :
                     /\ Len(s) >= 1
                     /\ Len(s) = MaxDomains => s = [k \in 1..MaxDomains |-> k]}
  /\ maxConcurrent \in 1..MaxConcurrent
  /\ maxSnapshots \in 1..MaxSnapshots
  /\ Len(domains) = 1 \/ maxSnapshots = 1
  /\ archive = IF Len(domains) = 1 THEN Outcomes
               ELSE IF Len(domains) = 2 THEN FewOutcomes
               ELSE HealthyOutcomes
  /\ phase = "idle"
  /\ queue = <<>>
  /\ active = {}
  /\ promises = {}
  /\ results = <<>>
  /\ returned = <<>>
  /\ pc = [t \in Tasks |-> "queued"]
  /\ loc = [t \in Tasks |-> InitLoc]
  /\ published = [t \in Tasks |-> <<>>]
  /\ domainStatuses = [d \in {} |-> <<>>]
  /\ snapshotCache = [k \in {} |-> EmptyHtml]
  /\ cacheSets = [k \in {} |-> <<>>]
  /\ completeAnalysisResults = <<>>
  /\ lastResultsHash = <<>>
  /\ completeEvent = <<>>
  /\ call = NoCall
  /\ stored = FALSE
  /\ feed = NoFeed
  /\ calc = NoCalc

Params == <<mode, domains, maxConcurrent, maxSnapshots, archive>>
FeedLocals == <<lastResultsHash, completeEvent>>
Client == <<snapshotCache, cacheSets>>
Detail == <<call, feed, calc>>

\* The handler's synchronous part and the batch operation up to its
\* `await Promise.all(promises)`: every domain is set to QUEUED, then the
\* first domains are started, each running up to its index request.
StartBatch ==
  LET n == Len(domains)
      k == InitialBatchSize(maxConcurrent, n)
      queued == [d \in DomainNames |-> QueuedStatus(d)]
      started == [t \in 1..k |-> StartStatus(domains[t])]
  IN /\ phase = "idle"
     /\ phase' = "running"
     /\ queue' = [j \in 1..(n - k) |-> k + j]
     /\ active' = {domains[t] : t \in 1..k}
     /\ promises' = 1..k
     /\ pc' = [t \in Tasks |-> IF t <= k THEN StartPc ELSE "queued"]
     /\ published' = [t \in Tasks |->
                        IF t <= k THEN <<"QUEUED", started[t].status>>
                        ELSE <<"QUEUED">>]
     /\ domainStatuses' = ApplyPubs(queued, started)
     /\ stored' = TRUE
     /\ UNCHANGED <<Params, Detail, FeedLocals, results, returned, loc, Client,
                    completeAnalysisResults>>

\* The run of position t continues to its next await.
Advance(t, newPc, newLoc, pubs) ==
  /\ pc' = [pc EXCEPT ![t] = newPc]
  /\ loc' = [loc EXCEPT ![t] = newLoc]
  /\ published' = [published EXCEPT ![t] = @ \o StatusNames(pubs)]
  /\ domainStatuses' = ApplyPubs(domainStatuses, pubs)
  /\ UNCHANGED <<phase, queue, active, promises, results, returned,
                 completeAnalysisResults, stored>>

\* A queue taken from its newest end.
Pop(q) == [item |-> q[Len(q)], rest |-> SubSeq(q, 1, Len(q) - 1)]

\* `queue.shift()`: the oldest entry leaves the queue.
Shift(q) == [item |-> Head(q), rest |-> Tail(q)]

\* The pipeline of position t returned `result`: the rest of processDomain
\* (results.push, then `finally`: the next queued domain is started, not
\* awaited), and, when this settles the last promise Promise.all was given,
\* the rest of the batch operation and of the handler's background task.
Settle(t, newLoc, pubs, result) ==
  LET hasNext == queue # <<>>
      u == Shift(queue).item
      startPubs == IF hasNext THEN <<StartStatus(domains[u])>> ELSE <<>>
      pc1 == [pc EXCEPT ![t] = "done"]
      pc2 == IF hasNext THEN [pc1 EXCEPT ![u] = StartPc] ELSE pc1
      pub1 == [published EXCEPT ![t] = @ \o StatusNames(pubs)]
      results2 == Append(results, result)
      resolves == phase = "running" /\ \A p \in promises : pc2[p] = "done"
  IN /\ pc' = pc2
     /\ loc' = [loc EXCEPT ![t] = newLoc]
     /\ published' = IF hasNext
                       THEN [pub1 EXCEPT ![u] = @ \o StatusNames(startPubs)]
                       ELSE pub1
     /\ domainStatuses' = ApplyPubs(domainStatuses, pubs \o startPubs)
     /\ results' = results2
     /\ queue' = IF hasNext THEN Shift(queue).rest ELSE queue
     /\ active' = (active \ {domains[t]})
                    \cup (IF hasNext THEN {domains[u]} ELSE {})
     /\ UNCHANGED <<promises, stored>>
     /\ IF resolves
          THEN /\ phase' = "resolved"
               /\ returned' = SortedResults(results2)
               /\ completeAnalysisResults' =
                    IF mode = "complete" THEN SortedResults(results2)
                    ELSE completeAnalysisResults
          ELSE UNCHANGED <<phase, returned, completeAnalysisResults>>

\* -------------------------------------------------- analyzeDomainForSpam
\* The for loop's step from capture i of n to the next capture.
LoopNext(i, n, failed) == i + 1

\* A call of getSnapshotHtml for capture k of domain d.
StartFetch(l, d, k, cache) ==
  [l EXCEPT !.i = k, !.pending = CacheLookup(cache, CacheKey(d, k))]

Idle(l) == [l EXCEPT !.pending = [hit |-> FALSE, html |-> EmptyHtml]]
\* A pipeline without the empty-list branch.
NoSnapshotsNever(n) == FALSE

\* `if (snapshots.length === 0)`
NoSnapshots(n) == n = 0
\* A final status with the thresholds taken strictly.
FinalStatusStrict(successfullyAnalyzed, maxSpamScore) ==
  IF successfullyAnalyzed = 0 THEN "UNAVAILABLE"
  ELSE IF maxSpamScore > 8 THEN "SPAM"
  ELSE IF maxSpamScore > 5 THEN "SUSPICIOUS"
  ELSE "CLEAN"

\* A final status taken from the score alone.
FinalStatusScoreOnly(successfullyAnalyzed, maxSpamScore) ==
  IF maxSpamScore >= 8 THEN "SPAM"
  ELSE IF maxSpamScore >= 5 THEN "SUSPICIOUS"
  ELSE "CLEAN"

FinalStatus(successfullyAnalyzed, maxSpamScore) ==
  IF successfullyAnalyzed = 0 THEN "UNAVAILABLE"
  ELSE IF maxSpamScore >= 8 THEN "SPAM"
  ELSE IF maxSpamScore >= 5 THEN "SUSPICIOUS"
  ELSE "CLEAN"

IndexErrorResult(t, d) ==
  [run |-> t, domain |-> d, status |-> "UNAVAILABLE", snapshotsFound |-> 0,
   snapshotsAnalyzed |-> 0, error |-> "CDX API error",
   lastMessage |-> "CDX API error"]

NoSnapshotsResult(t, d) ==
  [run |-> t, domain |-> d, status |-> "NO_SNAPSHOTS", snapshotsFound |-> 0,
   snapshotsAnalyzed |-> 0,
   lastMessage |-> "No snapshots found in Wayback Machine"]

FinalResult(t, d, l) ==
  LET st == FinalStatus(l.successfullyAnalyzed, l.maxSpamScore)
      base == [run |-> t, domain |-> d, status |-> st,
               snapshotsFound |-> l.snapshots,
               snapshotsAnalyzed |-> l.successfullyAnalyzed,
               failedSnapshots |-> l.failedSnapshots,
               maxSpamScore |-> l.maxSpamScore,
               lastMessage |-> IF st = "UNAVAILABLE"
                                 THEN "Failed to analyze any snapshots"
                                 ELSE "Analysis complete"]
      withErrors == IF l.snapshotErrors = <<>> THEN base
                    ELSE [snapshotErrors |-> l.snapshotErrors] @@ base
  IN IF l.snapshotErrors # <<>> /\ l.successfullyAnalyzed = 0
       THEN [error |-> "Failed to analyze any snapshots"] @@ withErrors
       ELSE withErrors

\* The record updateStatus(finalStatus, result) passes on: the result's
\* fields without the model's provenance tag.
StatusOfResult(r) == [f \in DOMAIN r \ {"run"} |-> r[f]]

\* analyzeDomainForSpam returned: to processDomain in the spam batch, to
\* analyzeDomainComplete (which goes on to the backlink stage) otherwise.
SpamReturn(t, l, pubs, result) ==
  IF mode = "spam"
  THEN Settle(t, [l EXCEPT !.spamAnalysis = result], pubs, result)
  ELSE Advance(t, "cp_backlinks", [l EXCEPT !.spamAnalysis = result],
               Append(pubs, [domain |-> domains[t],
                             status |-> "ANALYZING_BACKLINKS",
                             lastMessage |-> "Analyzing backlink profile..."]))

\* The code after the capture loop.
SpamFinish(t, l, pubs) ==
  LET result == FinalResult(t, domains[t], l)
  IN SpamReturn(t, [l EXCEPT !.spamStatus = StatusOfResult(result)],
                Append(pubs, SpamPub(StatusOfResult(result))), result)

\* The capture index answered the query of analyzeDomainForSpam.
SpamIndexReturn(t) ==
  /\ pc[t] = "sp_index"
  /\ \E outcome \in {[kind |-> "error", n |-> 0]}
                      \cup {[kind |-> "list", n |-> m] : m \in 0..maxSnapshots} :
       LET d == domains[t]
           l == [loc[t] EXCEPT !.spamIndex = outcome]
           unavailable == [domain |-> d, status |-> "UNAVAILABLE",
                           lastMessage |-> "CDX API error",
                           error |-> "CDX API error", snapshotsFound |-> 0]
           noSnapshots == [domain |-> d, status |-> "NO_SNAPSHOTS",
                           lastMessage |-> "No snapshots found in Wayback Machine",
                           snapshotsFound |-> 0]
           analyzing == [domain |-> d, status |-> "ANALYZING",
                         lastMessage |-> "Found snapshot(s), analyzing...",
                         snapshotsFound |-> outcome.n, snapshotsAnalyzed |-> 0]
           l0 == [l EXCEPT !.snapshots = outcome.n,
                           !.successfullyAnalyzed = 0,
                           !.failedSnapshots = 0,
                           !.maxSpamScore = 0,
                           !.snapshotErrors = <<>>,
                           !.spamStatus = analyzing]
           nxt == LoopNext(0, outcome.n, FALSE)
       IN IF outcome.kind = "error"
          THEN SpamReturn(t, [l EXCEPT !.spamStatus = unavailable],
                          <<SpamPub(unavailable)>>, IndexErrorResult(t, d))
          ELSE IF NoSnapshots(outcome.n)
          THEN SpamReturn(t, [l EXCEPT !.spamStatus = noSnapshots],
                          <<SpamPub(noSnapshots)>>, NoSnapshotsResult(t, d))
          ELSE IF nxt <= outcome.n
          THEN Advance(t, "sp_fetch", StartFetch(l0, d, nxt, snapshotCache),
                       <<SpamPub(analyzing)>>)
          ELSE SpamFinish(t, l0, <<SpamPub(analyzing)>>)
  /\ UNCHANGED <<Params, Detail, FeedLocals, Client>>

\* getSnapshotHtml of capture i settled in the spam loop.
SpamFetchReturn(t) ==
  /\ pc[t] = "sp_fetch"
  /\ \E r \in Resolutions(loc[t].pending) :
       LET l == loc[t]
           d == domains[t]
           key == CacheKey(d, l.i)
           cache1 == IF ~l.pending.hit /\ r.kind = "html"
                     THEN CacheSet(snapshotCache, key, r.html)
                     ELSE snapshotCache
           failed == r.kind = "throw" \/ r.html = EmptyHtml
           note == [capture |-> key,
                    error |-> IF r.kind = "throw" THEN "Failed to fetch snapshot HTML"
                              ELSE "Empty HTML result from snapshot"]
           lFail == [l EXCEPT !.failedSnapshots = @ + 1,
                              !.snapshotErrors = Append(@, note),
                              !.fetchLog = Append(@, [loop |-> "spam",
                                                      capture |-> l.i,
                                                      failed |-> TRUE,
                                                      html |-> r.html])]
           lOk0 == [l EXCEPT !.successfullyAnalyzed = @ + 1,
                             !.maxSpamScore = Max(@, SpamScore(r.html)),
                             !.fetchLog = Append(@, [loop |-> "spam",
                                                     capture |-> l.i,
                                                     failed |-> FALSE,
                                                     html |-> r.html])]
           analyzing == [domain |-> d, status |-> "ANALYZING",
                         lastMessage |-> "Analyzed snapshots...",
                         snapshotsFound |-> l.snapshots,
                         snapshotsAnalyzed |-> lOk0.successfullyAnalyzed,
                         maxSpamScore |-> lOk0.maxSpamScore]
           lOk == [lOk0 EXCEPT !.spamStatus = analyzing]
           progress == SpamPub(analyzing)
           nxt == LoopNext(l.i, l.snapshots, failed)
       IN /\ snapshotCache' = cache1
          /\ cacheSets' = IF ~l.pending.hit /\ r.kind = "html"
                           THEN LogSet(cacheSets, key, r.html)
                           ELSE cacheSets
          /\ IF failed
             THEN IF nxt <= l.snapshots
                  THEN Advance(t, "sp_fetch", StartFetch(lFail, d, nxt, cache1), <<>>)
                  ELSE SpamFinish(t, Idle(lFail), <<>>)
             ELSE IF l.i < l.snapshots
                  THEN Advance(t, "sp_delay", Idle(lOk), <<progress>>)
                  ELSE SpamFinish(t, Idle(lOk), <<progress>>)
  /\ UNCHANGED <<Params, Detail, FeedLocals>>

\* The delay between two captures elapsed.
SpamDelayElapsed(t) ==
  /\ pc[t] = "sp_delay"
  /\ LET l == loc[t]
         nxt == LoopNext(l.i, l.snapshots, FALSE)
     IN IF nxt <= l.snapshots
        THEN Advance(t, "sp_fetch", StartFetch(l, domains[t], nxt, snapshotCache), <<>>)
        ELSE SpamFinish(t, l, <<>>)
  /\ UNCHANGED <<Params, Detail, FeedLocals, Client>>

\* ------------------------------------------------ analyzeDomainComplete
CompleteResult(t, d, sa) ==
  LET base == [run |-> t, domain |-> d, status |-> "COMPLETE",
               spamAnalysis |-> sa,
               snapshotsFound |-> sa.snapshotsFound,
               snapshotsAnalyzed |-> sa.snapshotsAnalyzed]
  IN IF "maxSpamScore" \in DOMAIN sa
       THEN [maxSpamScore |-> sa.maxSpamScore] @@ base
       ELSE base

\* The capture index answered the query of analyzeDomainComplete.
CompleteIndexReturn(t) ==
  /\ pc[t] = "cp_index"
  /\ \E outcome \in {[kind |-> "error", n |-> 0]}
                      \cup {[kind |-> "list", n |-> m] : m \in 0..maxSnapshots} :
       LET d == domains[t]
           l == [loc[t] EXCEPT !.firstSnapshots = outcome.n]
           analyzingSpam == [domain |-> d, status |-> "ANALYZING_SPAM",
                             lastMessage |-> "Analyzing spam content...",
                             snapshotsFound |-> outcome.n]
           nxt == LoopNext(0, outcome.n, FALSE)
       IN IF outcome.kind = "error"
          THEN Settle(t, loc[t],
                      <<[domain |-> d, status |-> "UNAVAILABLE",
                         lastMessage |-> "Analysis failed",
                         error |-> "Failed to fetch snapshots"]>>,
                      [run |-> t, domain |-> d, status |-> "UNAVAILABLE",
                       error |-> "Failed to fetch snapshots"])
          ELSE IF NoSnapshots(outcome.n)
          THEN Settle(t, l, <<analyzingSpam>>,
                      [run |-> t, domain |-> d, status |-> "NO_SNAPSHOTS",
                       error |-> "No snapshots found", snapshotsFound |-> 0])
          ELSE IF nxt <= outcome.n
          THEN Advance(t, "cp_fetch", StartFetch(l, d, nxt, snapshotCache),
                       <<analyzingSpam>>)
          ELSE Advance(t, "sp_index", l, <<analyzingSpam, SpamFetchingStatus(d)>>)
  /\ UNCHANGED <<Params, Detail, FeedLocals, Client>>

\* getSnapshotHtml of capture i settled in the loop that fetches the HTML
\* for the backlink and topic analyses; after the last capture the run goes
\* on into analyzeDomainForSpam, up to its index request.
CompleteFetchReturn(t) ==
  /\ pc[t] = "cp_fetch"
  /\ \E r \in Resolutions(loc[t].pending) :
       LET l == loc[t]
           d == domains[t]
           key == CacheKey(d, l.i)
           cache1 == IF ~l.pending.hit /\ r.kind = "html"
                     THEN CacheSet(snapshotCache, key, r.html)
                     ELSE snapshotCache
           failed == r.kind = "throw"
           l1 == IF failed
                 THEN [l EXCEPT !.fetchLog = Append(@, [loop |-> "prefetch",
                                                        capture |-> l.i,
                                                        failed |-> TRUE,
                                                        html |-> r.html])]
                 ELSE [l EXCEPT !.snapshotsWithHtml =
                                   Append(@, [capture |-> key, html |-> r.html]),
                                !.fetchLog = Append(@, [loop |-> "prefetch",
                                                        capture |-> l.i,
                                                        failed |-> FALSE,
                                                        html |-> r.html])]
           nxt == LoopNext(l.i, l.firstSnapshots, failed)
       IN /\ snapshotCache' = cache1
          /\ cacheSets' = IF ~l.pending.hit /\ r.kind = "html"
                           THEN LogSet(cacheSets, key, r.html)
                           ELSE cacheSets
          /\ IF nxt <= l.firstSnapshots
             THEN Advance(t, "cp_fetch", StartFetch(l1, d, nxt, cache1), <<>>)
             ELSE Advance(t, "sp_index", Idle(l1), <<SpamFetchingStatus(d)>>)
  /\ UNCHANGED <<Params, Detail, FeedLocals>>

\* analyzeBacklinksHistory settled.
CompleteBacklinksDone(t) ==
  /\ pc[t] = "cp_backlinks"
  /\ Advance(t, "cp_topics", loc[t],
             <<[domain |-> domains[t], status |-> "ANALYZING_TOPICS",
                lastMessage |-> "Analyzing topic shifts..."]>>)
  /\ UNCHANGED <<Params, Detail, FeedLocals, Client>>

\* The requests getDomainMetrics has issued when it reaches its await: the
\* three lookups are called one after the other inside Promise.all, so the
\* rank lookup of getOpenPageRankMetrics and the HTTPS check of
\* getDomainAuthorityMetrics are both under way (getTrustFlowMetrics makes
\* no request).
\* analyzeTopicStability settled and getDomainMetrics was called.
CompleteTopicsDone(t) ==
  /\ pc[t] = "cp_topics"
  /\ Advance(t, "cp_metrics", [loc[t] EXCEPT !.metricsPending = {"rank", "https"}],
             <<[domain |-> domains[t], status |-> "ANALYZING_METRICS",
                lastMessage |-> "Fetching domain metrics..."]>>)
  /\ UNCHANGED <<Params, Detail, FeedLocals, Client>>

\* One of the requests of getDomainMetrics settled (answered, failed or, for
\* the HTTPS check, aborted); Promise.all settles with the last of them, and
\* with getDomainMetrics settled the result is assembled and returned.
MetricsLookupReturn(t, lookup) ==
  /\ pc[t] = "cp_metrics"
  /\ lookup \in loc[t].metricsPending
  /\ LET l == [loc[t] EXCEPT !.metricsPending = @ \ {lookup}]
         result == CompleteResult(t, domains[t], l.spamAnalysis)
     IN IF l.metricsPending = {}
        THEN Settle(t, l,
                    <<[domain |-> domains[t], status |-> "COMPLETE",
                       lastMessage |-> "Analysis complete",
                       snapshotsFound |-> result.snapshotsFound,
                       snapshotsAnalyzed |-> result.snapshotsAnalyzed]>>,
                    result)
        ELSE Advance(t, "cp_metrics", l, <<>>)
  /\ UNCHANGED <<Params, Detail, FeedLocals, Client>>

\* The rank lookup of getOpenPageRankMetrics settled.
CompleteRankReturn(t) == MetricsLookupReturn(t, "rank")

\* The HTTPS check of getDomainAuthorityMetrics settled.
CompleteHttpsReturn(t) == MetricsLookupReturn(t, "https")

\* ------------------------------------------- the complete-analysis feed
ResultsHash(rs) == [k \in DOMAIN rs |-> <<rs[k].domain, rs[k].status>>]

\* "Check if all domains are complete"
AllComplete(ds) == \A d \in DOMAIN ds : ds[d].status \in CompleteTerminal

\* One entry of the 'complete' event: the result merged with the status map.
MergedEntry(r, ds) ==
  [result |-> r,
   currentStatus |-> IF r.domain \in DOMAIN ds THEN ds[r.domain].status
                     ELSE r.status]

\* checkAndSendUpdates of the complete status feed, run by the poll timer:
\* it writes the 'complete' event, or else a 'status' event, which changes
\* nothing the session keeps.
FeedPoll ==
  /\ mode = "complete"
  /\ phase # "idle"
  /\ IF /\ completeAnalysisResults # <<>>
        /\ AllComplete(domainStatuses)
        /\ ResultsHash(completeAnalysisResults) # lastResultsHash
     THEN /\ completeEvent' = [k \in DOMAIN completeAnalysisResults |->
                                 MergedEntry(completeAnalysisResults[k],
                                             domainStatuses)]
          /\ lastResultsHash' = ResultsHash(completeAnalysisResults)
     ELSE UNCHANGED <<completeEvent, lastResultsHash>>
  /\ UNCHANGED <<Params, Detail, phase, queue, active, promises, results, returned,
                 pc, loc, published, domainStatuses, Client,
                 completeAnalysisResults, stored>>

\* The timer set when the 'complete' event was written deletes the stored
\* results.
FeedClearResults ==
  /\ completeEvent # <<>>
  /\ completeAnalysisResults # <<>>
  /\ completeAnalysisResults' = <<>>
  /\ UNCHANGED <<Params, Detail, FeedLocals, phase, queue, active, promises, results,
                 returned, pc, loc, published, domainStatuses, Client, stored>>

\* ----------------------------------------------------------- behaviours
Next ==
  \/ StartBatch
  \/ \E t \in Tasks : SpamIndexReturn(t)
  \/ \E t \in Tasks : SpamFetchReturn(t)
  \/ \E t \in Tasks : SpamDelayElapsed(t)
  \/ \E t \in Tasks : CompleteIndexReturn(t)
  \/ \E t \in Tasks : CompleteFetchReturn(t)
  \/ \E t \in Tasks : CompleteBacklinksDone(t)
  \/ \E t \in Tasks : CompleteTopicsDone(t)
  \/ \E t \in Tasks : CompleteRankReturn(t)
  \/ \E t \in Tasks : CompleteHttpsReturn(t)
  \/ FeedPoll
  \/ FeedClearResults

Spec == Init /\ [][Next]_vars

\* The steps that an armed timer or the program itself brings about: every
\* request made through createFetchWithTimeout and the index query settle
\* when their abort timer fires at the latest, delays elapse, and stages
\* without a request run to their end; the HTTPS check of getDomainMetrics
\* carries AbortSignal.timeout.  The rank lookup of getOpenPageRankMetrics
\* is not among them: it is a fetch without a signal, settled by the remote
\* service alone.
TimedNext ==
  \/ StartBatch
  \/ \E t \in Tasks : SpamIndexReturn(t)
  \/ \E t \in Tasks : SpamFetchReturn(t)
  \/ \E t \in Tasks : SpamDelayElapsed(t)
  \/ \E t \in Tasks : CompleteIndexReturn(t)
  \/ \E t \in Tasks : CompleteFetchReturn(t)
  \/ \E t \in Tasks : CompleteBacklinksDone(t)
  \/ \E t \in Tasks : CompleteTopicsDone(t)
  \/ \E t \in Tasks : CompleteHttpsReturn(t)
  \/ FeedPoll
  \/ FeedClearResults

\* The sessions in which remote services may stay silent for ever.
TimedSpec == Init /\ [][Next]_vars /\ WF_vars(TimedNext)

\* ----------------------------------- WaybackClient, request by request
\* One call of getSnapshots or getSnapshotHtml on a client, one step per
\* network response or elapsed backoff delay.
MaxRetries == 3
BackoffBase == 2000

RECURSIVE Pow2(_)
Pow2(n) == IF n = 0 THEN 1 ELSE 2 * Pow2(n - 1)

\* A backoff that does not grow.
WaitTimeFlat(retryCount) == BackoffBase

\* getSnapshots: `Math.pow(2, retryCount) * 2000`
WaitTime(retryCount) == Pow2(retryCount) * BackoffBase

\* getBackoffDelay(retryCount)
GetBackoffDelay(retryCount) == Pow2(retryCount) * BackoffBase

\* What a response can be: a status, and for an ok response the kind of its
\* body: a page, a page of at most 100 characters, a page of more than 100
\* characters of which at most 100 are not padding, a wrapper page with the
\* playback frame, a wrapper page without it.
BodyKinds == {"page", "short", "padded", "wrapper", "bare_wrapper"}
Responses ==
  {[status |-> st, body |-> "none"] :
     st \in {"429", "http_error", "network_error", "timeout"}}
    \cup {[status |-> "ok", body |-> b] : b \in BodyKinds}

IsWaybackWrapperHtml(html) == html \in {"wrapper", "bare_wrapper"}

\* The answers drawn for an extraction request.  The extraction has no 429
\* handling: it treats every status but ok alike, and a failed request like
\* one that timed out (both are thrown by the fetch and caught).
ExtractionResponses ==
  {r \in Responses :
     /\ r.status \in {"ok", "http_error", "timeout"}
     /\ r.body # "bare_wrapper"}

Session == <<Params, FeedLocals, phase, queue, active, promises, results,
             returned, pc, loc, published, domainStatuses,
             completeAnalysisResults, stored, feed, calc>>

\* The captured page the followed getSnapshotHtml call is for.
CallKey == CacheKey(1, 1)

\* A client that has served nothing yet, or has the capture cached.
ClientInit ==
  /\ mode = "spam"
  /\ domains = <<1>>
  /\ maxConcurrent = 1
  /\ maxSnapshots \in 1..MaxSnapshots
  /\ archive = Outcomes
  /\ phase = "idle"
  /\ queue = <<>>
  /\ active = {}
  /\ promises = {}
  /\ results = <<>>
  /\ returned = <<>>
  /\ pc = [t \in Tasks |-> "queued"]
  /\ loc = [t \in Tasks |-> InitLoc]
  /\ published = [t \in Tasks |-> <<>>]
  /\ domainStatuses = [d \in {} |-> <<>>]
  /\ \E cached \in {[k \in {} |-> "none"]}
                     \cup {[k \in {CallKey} |-> b] : b \in BodyKinds} :
       /\ snapshotCache = cached
       /\ cacheSets = [k \in DOMAIN cached |-> <<cached[k]>>]
  /\ completeAnalysisResults = <<>>
  /\ lastResultsHash = <<>>
  /\ completeEvent = <<>>
  /\ call = NoCall
  /\ stored = FALSE
  /\ feed = NoFeed
  /\ calc = NoCalc

\* ---- getSnapshots(target, limit, retryCount = 0, maxRetries = 3)
\* An index client that takes every answer but ok for a rate limit.
IsNotOk(status) == status # "ok"

\* `response && response.status === 429`
IsRateLimited(status) == status = "429"

CallGetSnapshots ==
  /\ call = NoCall
  /\ \E limit \in 1..maxSnapshots :
       call' = [op |-> "getSnapshots", limit |-> limit, retryCount |-> 0,
                at |-> "cdx", requests |-> <<"cdx">>, responses |-> <<>>,
                waits |-> <<>>, result |-> [kind |-> "none"]]
  /\ UNCHANGED <<Session, Client>>

\* The index answered (or the abort timer fired): 429 is retried after a
\* backoff while retryCount < maxRetries; any error ends the call, also in
\* every caller up the recursion; an ok answer is returned through them.
SnapshotsResponse ==
  /\ call.op = "getSnapshots"
  /\ call.at = "cdx"
  /\ \E r \in {[status |-> st, n |-> 0] :
                 st \in {"429", "http_error", "network_error", "timeout"}}
               \cup {[status |-> "ok", n |-> m] : m \in 0..call.limit} :
       LET seen == [call EXCEPT !.responses = Append(@, r)]
           Thrown(e) == [seen EXCEPT !.at = "thrown",
                                     !.result = [kind |-> "error", error |-> e]]
       IN call' =
            IF IsRateLimited(r.status)
            THEN IF call.retryCount < MaxRetries
                 THEN [seen EXCEPT !.at = "backoff",
                                   !.waits = Append(@, WaitTime(call.retryCount))]
                 ELSE Thrown("RateLimited")
            ELSE IF r.status = "timeout" THEN Thrown("Timeout")
            ELSE IF r.status \in {"http_error", "network_error"}
            THEN Thrown("FetchFailed")
            ELSE [seen EXCEPT !.at = "returned",
                              !.result = [kind |-> "captures", n |-> r.n]]
  /\ UNCHANGED <<Session, Client>>

\* The backoff delay elapsed: the recursive call issues the next request.
SnapshotsBackoffElapsed ==
  /\ call.op = "getSnapshots"
  /\ call.at = "backoff"
  /\ call' = [call EXCEPT !.at = "cdx", !.retryCount = @ + 1,
                          !.requests = Append(@, "cdx")]
  /\ UNCHANGED <<Session, Client>>

\* ---- getSnapshotHtml(snapshot, retryCount = 0, maxRetries = 3)
\* The requests extractOriginalHtmlFromWaybackWrapper makes for a wrapper,
\* in order, as long as none yields the page: the playback frame's src, the
\* raw variant, and the src of each element the content selectors match
\* ('iframe[src*="/web/"]' and '#playback' are the playback frame again).
ExtractionRequests(wrapper) ==
  IF wrapper = "wrapper" THEN <<"iframe", "rawvariant", "selector", "selector">>
  ELSE <<"rawvariant">>

\* `html.length > 100 && !this.isWaybackWrapperHtml(html)`
Extractable(r) == r.status = "ok" /\ r.body \in {"page", "padded"}

\* An extracted body is taken whenever it differs from the wrapper.
KeepsAnyExtracted(extracted, html) == extracted # html

\* `extracted && extracted.trim().length > 100 && extracted !== html`
KeepsExtracted(extracted, html) == extracted = "page" /\ extracted # html

\* An error thrown by the call at recursion depth Len(frames), where
\* frames[k] is the strategy in whose try block the call at depth k - 1
\* awaits the call at depth k: a caller waiting in its raw-URL strategy
\* catches anything but a timeout and goes on to its wrapper-URL strategy;
\* otherwise the error passes on to the next caller.
RECURSIVE Unwind(_, _)
Unwind(frames, e) ==
  IF frames = <<>> THEN [frames |-> <<>>, at |-> "thrown", error |-> e]
  ELSE LET parent == frames[Len(frames)]
           rest == SubSeq(frames, 1, Len(frames) - 1)
       IN IF parent = "raw" /\ e # "Timeout"
          THEN [frames |-> rest, at |-> "wrapper", error |-> "none"]
          ELSE Unwind(rest, e)

\* The followed call after an error e of the call at the current depth.
HtmlThrow(c, e) ==
  LET u == Unwind(c.frames, e)
  IN IF u.at = "thrown"
     THEN [c EXCEPT !.frames = u.frames, !.at = "thrown",
                    !.result = [kind |-> "error", error |-> e]]
     ELSE [c EXCEPT !.frames = u.frames, !.at = "wrapper",
                    !.requests = Append(@, "wrapper")]

\* The followed call after `return result`: every caller returns it too.
HtmlReturn(c, html) ==
  [c EXCEPT !.frames = <<>>, !.at = "returned",
            !.result = [kind |-> "html", html |-> html]]

CallGetSnapshotHtml ==
  /\ call = NoCall
  /\ LET cached == CacheLookup(snapshotCache, CallKey)
         fresh == [op |-> "getSnapshotHtml", frames |-> <<>>, at |-> "raw",
                   wrapper |-> "none", todo |-> <<>>, answers |-> <<>>,
                   requests |-> <<"raw">>,
                   waits |-> <<>>, result |-> [kind |-> "none"]]
     IN call' = IF cached.hit
                THEN [fresh EXCEPT !.at = "returned", !.requests = <<>>,
                                   !.result = [kind |-> "html",
                                               html |-> cached.html]]
                ELSE fresh
  /\ UNCHANGED <<Session, Client>>

\* The step after an ok response with a wrapper body: the first extraction
\* request is issued.
StartExtraction(c, strategy, wrapper) ==
  [c EXCEPT !.at = "extract_" \o strategy, !.wrapper = wrapper,
            !.todo = Tail(ExtractionRequests(wrapper)), !.answers = <<>>,
            !.requests = Append(@, Head(ExtractionRequests(wrapper)))]

\* Handling of a 429 in either strategy.
RateLimited(c, strategy) ==
  IF Len(c.frames) < MaxRetries
  THEN [c EXCEPT !.at = "backoff_" \o strategy,
                 !.waits = Append(@, GetBackoffDelay(Len(c.frames)))]
  ELSE IF strategy = "raw"
  THEN [c EXCEPT !.at = "wrapper", !.requests = Append(@, "wrapper")]
  ELSE HtmlThrow(c, "RateLimited")

\* A client that stores whatever an answer carried, unless it is a wrapper.
StoresAnyAnswer(status, body) == ~IsWaybackWrapperHtml(body)

\* The answers whose body is cached and returned as it is: `response.ok`
\* with a body that is not a wrapper.
StoresAnswer(status, body) == status = "ok" /\ ~IsWaybackWrapperHtml(body)

\* Strategy 1: the raw URL answered.
HtmlRawResponse ==
  /\ call.op = "getSnapshotHtml"
  /\ call.at = "raw"
  /\ \E r \in Responses :
       /\ call' =
            IF r.status = "429" THEN RateLimited(call, "raw")
            ELSE IF r.status = "timeout" THEN HtmlThrow(call, "Timeout")
            ELSE IF r.status \in {"http_error", "network_error"}
            THEN [call EXCEPT !.at = "wrapper",
                              !.requests = Append(@, "wrapper")]
            ELSE IF IsWaybackWrapperHtml(r.body)
            THEN StartExtraction(call, "raw", r.body)
            ELSE HtmlReturn(call, r.body)
       /\ IF StoresAnswer(r.status, r.body)
          THEN /\ snapshotCache' = CacheSet(snapshotCache, CallKey, r.body)
               /\ cacheSets' = LogSet(cacheSets, CallKey, r.body)
          ELSE UNCHANGED Client
  /\ UNCHANGED Session

\* Strategy 2: the wrapper URL answered.
HtmlWrapperResponse ==
  /\ call.op = "getSnapshotHtml"
  /\ call.at = "wrapper"
  /\ \E r \in Responses :
       /\ call' =
            IF r.status = "429" THEN RateLimited(call, "wrapper")
            ELSE IF r.status = "timeout" THEN HtmlThrow(call, "Timeout")
            ELSE IF r.status \in {"http_error", "network_error"}
            THEN HtmlThrow(call, "FetchFailed")
            ELSE IF IsWaybackWrapperHtml(r.body)
            THEN StartExtraction(call, "wrapper", r.body)
            ELSE HtmlReturn(call, r.body)
       /\ IF StoresAnswer(r.status, r.body)
          THEN /\ snapshotCache' = CacheSet(snapshotCache, CallKey, r.body)
               /\ cacheSets' = LogSet(cacheSets, CallKey, r.body)
          ELSE UNCHANGED Client
  /\ UNCHANGED Session

\* An extraction request answered: the page is taken if it is one, else the
\* next request is made; when none is left the wrapper itself is the
\* result.  The result is cached and returned.  `answers` keeps what the
\* extraction requests were answered with.
HtmlExtractResponse ==
  /\ call.op = "getSnapshotHtml"
  /\ call.at \in {"extract_raw", "extract_wrapper"}
  /\ \E r \in ExtractionResponses :
       LET done == Extractable(r) \/ call.todo = <<>>
           extracted == IF Extractable(r) THEN r.body ELSE call.wrapper
           html == IF KeepsExtracted(extracted, call.wrapper)
                   THEN extracted ELSE call.wrapper
           seen == [call EXCEPT !.answers = Append(@, r)]
       IN IF done
          THEN /\ call' = HtmlReturn(seen, html)
               /\ snapshotCache' = CacheSet(snapshotCache, CallKey, html)
               /\ cacheSets' = LogSet(cacheSets, CallKey, html)
          ELSE /\ call' = [seen EXCEPT !.todo = Tail(@),
                                       !.requests = Append(@, Head(call.todo))]
               /\ UNCHANGED Client
  /\ UNCHANGED Session

\* The backoff delay elapsed: the recursive call (the cache still has no
\* entry) issues its raw-URL request.
HtmlBackoffElapsed ==
  /\ call.op = "getSnapshotHtml"
  /\ call.at \in {"backoff_raw", "backoff_wrapper"}
  /\ call' = [call EXCEPT
                !.frames = Append(@, IF call.at = "backoff_raw" THEN "raw"
                                     ELSE "wrapper"),
                !.at = "raw",
                !.requests = Append(@, "raw")]
  /\ UNCHANGED <<Session, Client>>

ClientNext ==
  \/ CallGetSnapshots
  \/ SnapshotsResponse
  \/ SnapshotsBackoffElapsed
  \/ CallGetSnapshotHtml
  \/ HtmlRawResponse
  \/ HtmlWrapperResponse
  \/ HtmlExtractResponse
  \/ HtmlBackoffElapsed

ClientSpec == ClientInit /\ [][ClientNext]_vars

\* ------------------------ the spam pipeline's index query, by request
\* One run of analyzeDomainForSpam whose call of getSnapshots is followed
\* request by request: the pipeline goes on with what the call returned or
\* threw.  The session has one domain, at position 1.
\* `snapshots = await this.getSnapshots(domain, maxSnapshots)`
IndexQuery ==
  /\ pc[1] = "sp_index"
  /\ CallGetSnapshots
  /\ call'.limit = maxSnapshots

\* The call settled and the pipeline continues after its await.
IndexSettles ==
  /\ call.op = "getSnapshots"
  /\ call.at \in {"returned", "thrown"}
  /\ SpamIndexReturn(1)
  /\ loc'[1].spamIndex = IF call.at = "thrown" THEN [kind |-> "error", n |-> 0]
                         ELSE [kind |-> "list", n |-> call.result.n]

IndexNext ==
  \/ StartBatch
  \/ IndexQuery
  \/ SnapshotsResponse
  \/ SnapshotsBackoffElapsed
  \/ IndexSettles
  \/ SpamFetchReturn(1)
  \/ SpamDelayElapsed(1)

IndexInit == ClientInit /\ snapshotCache = [k \in {} |-> EmptyHtml]

IndexSpec == IndexInit /\ [][IndexNext]_vars

\* --------------------------------- a spam session and its status feed
\* The consumer of GET analyze-spam-status?sessionId=...: it connects,
\* is sent the statuses every 500 ms, disconnects and may connect again.
MaxCloses == 2

Workers == <<phase, queue, active, promises, results, returned, pc, loc,
             published, domainStatuses, completeAnalysisResults>>

\* checkAndSendUpdates: a 'status' event with the values of the session's
\* map, if global.domainStatusStorage has one for the session.
CheckAndSendUpdates(f) ==
  IF stored THEN [f EXCEPT !.sent = domainStatuses] ELSE f

\* The handler of a connecting consumer: 'connected', the first
\* checkAndSendUpdates, and the poll timer is set.
ConsumerConnect ==
  /\ feed.conn # "open"
  /\ feed' = CheckAndSendUpdates([feed EXCEPT !.conn = "open"])
  /\ UNCHANGED <<Params, Workers, FeedLocals, Client, call, calc, stored>>

\* The poll timer of the open connection fires.
StatusFeedPoll ==
  /\ feed.conn = "open"
  /\ feed' = CheckAndSendUpdates(feed)
  /\ UNCHANGED <<Params, Workers, FeedLocals, Client, call, calc, stored>>

\* req.on('close'): the timers of the connection are cleared and the
\* deletion of the session's statuses is scheduled for 5 minutes later.
ConsumerClose ==
  /\ feed.conn = "open"
  /\ feed.timers < MaxCloses
  /\ feed' = [feed EXCEPT !.conn = "closed", !.timers = @ + 1]
  /\ UNCHANGED <<Params, Workers, FeedLocals, Client, call, calc, stored>>

\* A scheduled deletion runs: global.domainStatusStorage.delete(sessionId).
CleanupFires ==
  /\ feed.timers > 0
  /\ feed' = [feed EXCEPT !.timers = @ - 1]
  /\ stored' = FALSE
  /\ UNCHANGED <<Params, Workers, FeedLocals, Client, call, calc>>

\* The spam sessions of one or two domains.
FeedInit ==
  /\ Init
  /\ mode = "spam"
  /\ Len(domains) <= 2

FeedNext ==
  \/ StartBatch
  \/ \E t \in Tasks : SpamIndexReturn(t)
  \/ \E t \in Tasks : SpamFetchReturn(t)
  \/ \E t \in Tasks : SpamDelayElapsed(t)
  \/ ConsumerConnect
  \/ StatusFeedPoll
  \/ ConsumerClose
  \/ CleanupFires

FeedSpec == FeedInit /\ [][FeedNext]_vars

\* What the session's timers and the archive's bounded requests bring about
\* without the consumer: the workers' steps, the poll timer of an open
\* connection, and the scheduled deletions.
FeedTimed ==
  \/ StartBatch
  \/ \E t \in Tasks : SpamIndexReturn(t)
  \/ \E t \in Tasks : SpamFetchReturn(t)
  \/ \E t \in Tasks : SpamDelayElapsed(t)
  \/ StatusFeedPoll
  \/ CleanupFires

FeedFairSpec == FeedSpec /\ WF_vars(FeedTimed)

\* -------------------------------------------- functions of the analysis
\* One evaluation of a pure function: the arguments are drawn when the
\* behaviour starts and one step applies the function.
Rest == <<Params, FeedLocals, Workers, stored, feed, Client, call>>

MaxTextLen == 6
MaxCustom == 2

\* Texts are sequences of characters.  "A" is the upper-case form of "a".
TextChars == {"a", "b", "A"}

RECURSIVE SeqsUpTo(_, _)
SeqsUpTo(S, n) ==
  IF n = 0 THEN {<<>>}
  ELSE LET shorter == SeqsUpTo(S, n - 1)
       IN shorter \cup {Append(x, c) : x \in {y \in shorter : Len(y) = n - 1},
                                       c \in S}

Texts == SeqsUpTo(TextChars, MaxTextLen)

\* The words a stop-word list is drawn from, in list order: words that
\* contain one another, a word that differs from another in case and
\* surrounding blanks only, and a blank word.
WordPool == << <<"a">>, <<"b">>, <<"a", "b">>, <<"b", "a">>, <<"a", "a">>,
              <<"b", "b">>, <<" ", "A", " ">>, <<" ">> >>

RECURSIVE PickWords(_, _)
PickWords(pool, chosen) ==
  IF pool = <<>> THEN <<>>
  ELSE IF Len(pool) \in chosen
  THEN Append(PickWords(SubSeq(pool, 1, Len(pool) - 1), chosen), pool[Len(pool)])
  ELSE PickWords(SubSeq(pool, 1, Len(pool) - 1), chosen)

StopWordLists == {PickWords(WordPool, chosen) : chosen \in SUBSET DOMAIN WordPool}

\* String.prototype.toLowerCase
ToLowerCase(str) == [k \in DOMAIN str |-> IF str[k] = "A" THEN "a" ELSE str[k]]

\* String.prototype.trim
RECURSIVE Trim(_)
Trim(str) ==
  IF str = <<>> THEN str
  ELSE IF Head(str) = " " THEN Trim(Tail(str))
  ELSE IF str[Len(str)] = " " THEN Trim(SubSeq(str, 1, Len(str) - 1))
  ELSE str

\* word occurs in str at position i
OccursAt(str, word, i) ==
  /\ i + Len(word) - 1 <= Len(str)
  /\ SubSeq(str, i, i + Len(word) - 1) = word

\* String.prototype.includes
Includes(str, word) == \E i \in 1..Len(str) : OccursAt(str, word, i)

\* `textLower.match(regex).length` for the global regex of a non-empty
\* word: each match is looked for from the end of the one before.
RECURSIVE MatchCount(_, _, _)
MatchCount(str, word, from) ==
  IF from + Len(word) - 1 > Len(str) THEN 0
  ELSE IF OccursAt(str, word, from)
  THEN 1 + MatchCount(str, word, from + Len(word))
  ELSE MatchCount(str, word, from + 1)

\* The forEach over the stop words, from the k-th on.
RECURSIVE FindStopWords(_, _, _, _)
FindStopWords(textLower, stopWords, k, found) ==
  IF k > Len(stopWords) THEN found
  ELSE LET wordLower == Trim(ToLowerCase(stopWords[k]))
           listed == \E j \in DOMAIN found : found[j].word = wordLower
       IN IF wordLower # <<>> /\ Includes(textLower, wordLower) /\ ~listed
          THEN FindStopWords(textLower, stopWords, k + 1,
                             Append(found,
                                    [word |-> wordLower,
                                     count |-> MatchCount(textLower, wordLower, 1)]))
          ELSE FindStopWords(textLower, stopWords, k + 1, found)

RECURSIVE TotalOccurrences(_)
TotalOccurrences(found) ==
  IF found = <<>> THEN 0 ELSE Head(found).count + TotalOccurrences(Tail(found))

\* A score without the bonus for frequent occurrences.
StopWordsScoreNoBonus(found) == Min(10, Len(found) * 2)

\* A score whose bonus for more than 10 occurrences is given to a single
\* matched word only.
StopWordsScoreSingleBonus(found) ==
  IF found = <<>> THEN 0
  ELSE IF TotalOccurrences(found) > 10 /\ Len(found) = 1 THEN 10
  ELSE Min(10, Len(found) * 2)

\* "Calculate spam score (0-10) based on found words"
StopWordsScore(found) ==
  IF found = <<>> THEN 0
  ELSE LET score == Min(10, Len(found) * 2)
           totalOccurrences == TotalOccurrences(found)
       IN IF totalOccurrences > 10 THEN 10
          ELSE IF totalOccurrences > 5 THEN Min(10, score + 2)
          ELSE score

CheckStopWords(text, stopWords) ==
  IF text = <<>> \/ stopWords = <<>>
  THEN [found |-> <<>>, count |-> 0, score |-> 0]
  ELSE LET found == FindStopWords(ToLowerCase(text), stopWords, 1, <<>>)
       IN [found |-> found, count |-> Len(found), score |-> StopWordsScore(found)]

Pending == [kind |-> "pending"]

CheckStopWordsInputs ==
  {[op |-> "checkStopWords", text |-> text, stopWords |-> list, result |-> Pending] :
     text \in Texts, list \in StopWordLists}

ApplyCheckStopWords ==
  /\ calc.op = "checkStopWords"
  /\ calc.result = Pending
  /\ calc' = [calc EXCEPT !.result = CheckStopWords(calc.text, calc.stopWords)]
  /\ UNCHANGED Rest

\* ---- the risk assessment of analyzeDomainComplete
MaxFlags == 3

\* A score an analysis may or may not have produced.
NoValue == [has |-> FALSE, v |-> 0]
Value(x) == [has |-> TRUE, v |-> x]

\* Values without a bound.
NoClamp(x) == x

\* `Math.min(100, Math.max(0, x))`
Clamp(x) == Min(100, Max(0, x))

\* spamRisk
SpamRisk(maxSpamScore) ==
  IF maxSpamScore.has THEN Value(Clamp(maxSpamScore.v * 10)) ELSE NoValue

\* backlinkRisk, metricsRisk, topicRisk: the inverted quality score
InvertedRisk(quality) ==
  IF quality.has THEN Value(Clamp(100 - quality.v)) ELSE NoValue

\* riskFactors, with the weights in hundredths
RiskFactors(in) ==
  LET factor(name, risk, weight) ==
        IF risk.has THEN <<[name |-> name, value |-> risk.v, weight |-> weight]>>
        ELSE <<>>
  IN factor("Spam Content", SpamRisk(in.maxSpamScore), 35)
       \o factor("Backlink Quality", InvertedRisk(in.averageQualityScore), 25)
       \o factor("Domain Metrics", InvertedRisk(in.overallQualityScore), 25)
       \o factor("Topic Stability", InvertedRisk(in.stabilityScore), 15)

RECURSIVE FlagSum(_)
FlagSum(redFlags) ==
  IF redFlags = <<>> THEN 0
  ELSE (IF Head(redFlags) = "high" THEN 15
        ELSE IF Head(redFlags) = "medium" THEN 8
        ELSE 3) + FlagSum(Tail(redFlags))

\* A penalty without its cap.
RedFlagPenaltyUncapped(redFlags) == FlagSum(redFlags)

\* redFlagPenalty
RedFlagPenalty(redFlags) ==
  IF Len(redFlags) > 0 THEN Min(30, FlagSum(redFlags)) ELSE 0

RECURSIVE WeightedSum(_)
WeightedSum(factors) ==
  IF factors = <<>> THEN 0
  ELSE Head(factors).value * Head(factors).weight + WeightedSum(Tail(factors))

RECURSIVE TotalWeight(_)
TotalWeight(factors) ==
  IF factors = <<>> THEN 0 ELSE Head(factors).weight + TotalWeight(Tail(factors))

\* Math.round of num / den for num >= 0, den > 0.  The quotient is computed
\* in floating point from inexact weights: where it is half-way between
\* two integers in exact arithmetic, `tie` says which of them comes out.
RoundQuotient(num, den, tie) ==
  IF 2 * (num % den) = den THEN (num \div den) + tie
  ELSE (2 * num + den) \div (2 * den)

\* overallRiskScore as returned
OverallRiskScore(in, tie) ==
  LET factors == RiskFactors(in)
      spamRisk == SpamRisk(in.maxSpamScore)
      penalty == RedFlagPenalty(in.redFlags)
  IN Clamp(IF TotalWeight(factors) > 0
           THEN RoundQuotient(WeightedSum(factors), TotalWeight(factors), tie)
                  + penalty
           ELSE IF spamRisk.has THEN spamRisk.v + penalty ELSE 0)

\* The chain of `if ... else if` on spamRisk, redFlagPenalty and the score.
FirstRule(spamRisk, penalty, score) ==
  IF spamRisk.has /\ spamRisk.v >= 80 THEN "AVOID"
  ELSE IF spamRisk.has /\ spamRisk.v >= 50 THEN "AVOID"
  ELSE IF penalty >= 20 THEN "AVOID"
  ELSE IF score >= 70 THEN "AVOID"
  ELSE IF score >= 55 THEN "CAUTION"
  ELSE IF score >= 40 THEN "REVIEW"
  ELSE IF score >= 25 THEN "REVIEW"
  ELSE "BUY"

\* recommendation, after "Additional factors for recommendation"
Recommendation(in, score) ==
  LET first == FirstRule(SpamRisk(in.maxSpamScore), RedFlagPenalty(in.redFlags),
                         score)
      metricsRisk == InvertedRisk(in.overallQualityScore)
      backlinkRisk == InvertedRisk(in.averageQualityScore)
      second == IF metricsRisk.has /\ metricsRisk.v > 70 /\ first = "BUY"
                THEN "REVIEW" ELSE first
  IN IF backlinkRisk.has /\ backlinkRisk.v > 60 /\ second = "BUY"
     THEN "REVIEW" ELSE second

\* A risk level taken from the score alone.
RiskLevelByScore(score, recommendation) ==
  IF score >= 70 THEN "HIGH" ELSE IF score >= 40 THEN "MEDIUM" ELSE "LOW"

\* riskLevel
RiskLevel(score, recommendation) ==
  LET level == IF score >= 70 \/ recommendation = "AVOID" THEN "HIGH"
               ELSE IF score >= 40 \/ recommendation = "CAUTION" THEN "MEDIUM"
               ELSE "LOW"
  IN IF recommendation = "AVOID" /\ level = "LOW" THEN "HIGH" ELSE level

AssessRisk(in, tie) ==
  LET score == OverallRiskScore(in, tie)
      recommendation == Recommendation(in, score)
  IN [riskFactors |-> RiskFactors(in),
      spamRisk |-> SpamRisk(in.maxSpamScore),
      redFlagPenalty |-> RedFlagPenalty(in.redFlags),
      overallRiskScore |-> score,
      recommendation |-> recommendation,
      riskLevel |-> RiskLevel(score, recommendation)]

\* The scores the analyses hand to the assessment, or none.
SpamScores == {NoValue} \cup {Value(x) : x \in {0, 3, 5, 8, 12}}
QualityScores == {NoValue} \cup {Value(x) : x \in {0, 29, 45, 100}}
Severities == {"high", "medium", "low"}

RiskInputs ==
  {[op |-> "assessRisk", maxSpamScore |-> sp, averageQualityScore |-> bl,
    overallQualityScore |-> mt, stabilityScore |-> tp, redFlags |-> fl,
    result |-> Pending] :
     sp \in SpamScores, bl \in QualityScores, mt \in QualityScores,
     tp \in QualityScores, fl \in SeqsUpTo(Severities, MaxFlags)}

ApplyAssessRisk ==
  /\ calc.op = "assessRisk"
  /\ calc.result = Pending
  /\ \E tie \in {0, 1} : calc' = [calc EXCEPT !.result = AssessRisk(calc, tie)]
  /\ UNCHANGED Rest

\* ---- the stop words of a run
\* defaultStopWords: a built-in list in which one word is written twice
\* (as 'click here' is).
DefaultStopWords == << <<"b">>, <<"a", "b">>, <<"b">> >>

\* The `stopWords` of a request body: absent, a string of words separated
\* by commas or newlines (given by its pieces between the separators), or
\* an array of words.
CustomWords == { <<"a">>, <<"A">>, <<" ", "a">>, <<"b">>, <<" ">> }

BodyStopWords ==
  {[form |-> "none", words |-> <<>>]}
    \cup {[form |-> f, words |-> ws] :
            f \in {"string", "array"}, ws \in SeqsUpTo(CustomWords, MaxCustom)}

\* JavaScript truthiness of the value: an empty string is falsy, an array
\* is not.
Truthy(sw) == sw.form = "array" \/ (sw.form = "string" /\ sw.words # <<>>)

\* parseStopWords(input)
ParseStopWords(input) ==
  IF input.form # "string" \/ input.words = <<>> THEN <<>>
  ELSE LET trimmed == [i \in 1..Len(input.words) |-> Trim(input.words[i])]
           kept == SelectSeq(trimmed, LAMBDA w : Len(w) > 0)
       IN [i \in 1..Len(kept) |-> ToLowerCase(kept[i])]

\* [...new Set(list)]: the first occurrence of each element, in order
RECURSIVE Distinct(_, _)
Distinct(list, kept) ==
  IF list = <<>> THEN kept
  ELSE Distinct(Tail(list),
                IF \E k \in DOMAIN kept : kept[k] = Head(list) THEN kept
                ELSE Append(kept, Head(list)))

\* combineStopWords(customWords = []); further arguments are not read
CombineStopWords(customWords) ==
  LET custom == IF customWords.form = "array" THEN customWords.words
                ELSE ParseStopWords(customWords)
  IN Distinct(DefaultStopWords \o custom, <<>>)

\* finalStopWords of the spam analysis endpoint
SpamHandlerStopWords(sw) ==
  IF Truthy(sw)
  THEN IF sw.form = "string"
       THEN CombineStopWords([form |-> "array", words |-> ParseStopWords(sw)])
       ELSE CombineStopWords(sw)
  ELSE DefaultStopWords

\* combinedStopWords of the complete analysis endpoint:
\* `combineStopWords(defaultStopWords, customStopWords)`
CompleteHandlerStopWords(sw) ==
  CombineStopWords([form |-> "array", words |-> DefaultStopWords])

StopWordsInputs ==
  {[op |-> "stopWords", handler |-> h, stopWords |-> sw, result |-> Pending] :
     h \in Modes, sw \in BodyStopWords}

ApplyStopWords ==
  /\ calc.op = "stopWords"
  /\ calc.result = Pending
  /\ calc' = [calc EXCEPT !.result =
                 [list |-> IF calc.handler = "spam"
                           THEN SpamHandlerStopWords(calc.stopWords)
                           ELSE CompleteHandlerStopWords(calc.stopWords)]]
  /\ UNCHANGED Rest

\* ---- getDomainMetrics(domain, backlinkData)
\* JavaScript values of the metrics object's fields.
Null == [kind |-> "null", v |-> 0]
NaN == [kind |-> "nan", v |-> 0]
Number(x) == [kind |-> "number", v |-> x]

\* a + b on such values, where a is a number or NaN
Plus(a, b) ==
  IF a.kind = "number" /\ b.kind = "number" THEN Number(a.v + b.v) ELSE NaN

\* getOpenPageRankMetrics: null, or `{ domainRating: result.rank || null }`
OpenPageRankMetrics(opr) ==
  IF ~opr.ok THEN Null
  ELSE [kind |-> "object",
        domainRating |-> IF opr.rank = 0 THEN Null ELSE Number(opr.rank)]

\* getDomainAuthorityMetrics, with `random` for Math.floor(Math.random() * 20)
DomainAuthorityMetrics(ext, httpsOk, random) ==
  LET isTLD == ext \in {"com", "org", "net", "edu", "gov"}
      baseScore == (IF isTLD THEN 40 ELSE 30) + (IF httpsOk THEN 10 ELSE 0)
  IN Min(100, baseScore + random)

\* getTrustFlowMetrics: trustFlow
TrustFlowMetrics(ext, averageQualityScore) ==
  LET base == IF averageQualityScore.has /\ averageQualityScore.v # 0
              THEN Min(50, averageQualityScore.v \div 2)
              ELSE 15
      bonus == IF ext \in {"org", "edu", "gov"} THEN 10
               ELSE IF ext \in {"com", "net"} THEN 5
               ELSE 0
  IN Min(100, base + bonus)

\* `metrics.x !== null`: true of a number and of a field never assigned
NotNull(x) == x.kind # "null"

\* getDomainMetrics: the combined object and its overallQualityScore.
\* `Math.min(100, metrics.domainRating * 2)` of a rating never assigned is
\* NaN (undefined * 2), which Math.min and the additions keep.  The
\* sum of integers divided by 2 or 3 is half-way between two integers only
\* as an exact x.5, which Math.round takes upwards.
GetDomainMetrics(in) ==
  LET oprMetrics == OpenPageRankMetrics(in.opr)
      domainRating == IF oprMetrics.kind = "object" THEN oprMetrics.domainRating
                      ELSE [kind |-> "undefined", v |-> 0]
      domainAuthority == Number(DomainAuthorityMetrics(in.ext, in.httpsOk, in.random))
      trustFlow == Number(TrustFlowMetrics(in.ext, in.averageQualityScore))
      doubled == IF domainRating.kind = "number"
                 THEN Number(Min(100, domainRating.v * 2))
                 ELSE NaN
      q1 == IF NotNull(domainRating) THEN Plus(Number(0), doubled) ELSE Number(0)
      q2 == IF NotNull(domainAuthority) THEN Plus(q1, domainAuthority) ELSE q1
      q3 == IF NotNull(trustFlow) THEN Plus(q2, trustFlow) ELSE q2
      factors == (IF NotNull(domainRating) THEN 1 ELSE 0)
                   + (IF NotNull(domainAuthority) THEN 1 ELSE 0)
                   + (IF NotNull(trustFlow) THEN 1 ELSE 0)
  IN [domainRating |-> domainRating,
      domainAuthority |-> domainAuthority,
      trustFlow |-> trustFlow,
      overallQualityScore |->
        IF factors = 0 THEN Null
        ELSE IF q3.kind = "number" THEN Number(RoundQuotient(q3.v, factors, 1))
        ELSE NaN]

\* The inputs: an extension of each class the code tells apart; what the
\* rank lookup comes to (no answer that can be used: a failed request, a
\* status other than ok, an empty response; or the rank of the first
\* entry); whether the HTTPS check succeeded; the random addend.
MetricsInputs ==
  {[op |-> "getDomainMetrics", ext |-> e, opr |-> o, httpsOk |-> h,
    random |-> r, averageQualityScore |-> a, result |-> Pending] :
     e \in {"com", "org", "io"},
     o \in {[ok |-> FALSE, rank |-> 0]}
             \cup {[ok |-> TRUE, rank |-> k] : k \in {0, 4, 60}},
     h \in BOOLEAN, r \in {0, 19}, a \in QualityScores}

ApplyGetDomainMetrics ==
  /\ calc.op = "getDomainMetrics"
  /\ calc.result = Pending
  /\ calc' = [calc EXCEPT !.result = GetDomainMetrics(calc)]
  /\ UNCHANGED Rest

\* ---- analyzeTopicStability(snapshots)
MaxCaptures == 5

\* A stability score taken from the last pair alone.
StabilityScoreOfLast(similarities) ==
  IF Len(similarities) = 0 THEN 100 ELSE similarities[Len(similarities)]

\* stabilityScore for the similarities of the adjacent pairs: a sum of
\* integers divided by their number is half-way between two integers only
\* as an exact x.5, which Math.round takes upwards.
StabilityScore(similarities) ==
  IF Len(similarities) > 0
  THEN RoundQuotient(SumSeq(similarities), Len(similarities), 1)
  ELSE 100

\* `history.length > 2` and `shifts > history.length / 2`
UnstableTopics(historyLen, shifts) ==
  historyLen > 2 /\ 2 * shifts > historyLen

\* detectRedFlags(topics, history): the flags, in order.  `latest` says
\* what the latest capture's title, keywords and description give rise to;
\* similarities[k] is the similarity of captures k and k + 1, the last
\* entry being that of the latest capture and the last of history.
DetectRedFlags(latest, historyLen, similarities) ==
  LET historyPairs == {k \in 1..(historyLen - 1) : similarities[k] < 40}
      flag(type, severity) == <<[type |-> type, severity |-> severity]>>
  IN (IF latest.missingTitle THEN flag("missing_title", "medium") ELSE <<>>)
       \o [k \in 1..latest.suspiciousKeywords |->
             [type |-> "suspicious_keyword", severity |-> "high"]]
       \o (IF historyLen > 0 /\ similarities[historyLen] < 30
           THEN flag("major_topic_shift", "high") ELSE <<>>)
       \o (IF UnstableTopics(historyLen, Cardinality(historyPairs))
           THEN flag("unstable_topics", "high") ELSE <<>>)
       \o (IF latest.missingMeta THEN flag("missing_meta", "low") ELSE <<>>)

\* analyzeTopicStability for `n` captures that have HTML.
AnalyzeTopicStability(in) ==
  IF in.n = 0
  THEN [snapshotsAnalyzed |-> 0, stabilityScore |-> Null, redFlags |-> <<>>]
  ELSE [snapshotsAnalyzed |-> in.n,
        stabilityScore |-> Number(StabilityScore(in.similarities)),
        redFlags |-> DetectRedFlags(in.latest, in.n - 1, in.similarities)]

\* topicRisk, of a score for which `typeof x === 'number' && isFinite(x)`
TopicRisk(topicAnalysis) ==
  InvertedRisk(IF topicAnalysis.stabilityScore.kind = "number"
               THEN Value(topicAnalysis.stabilityScore.v) ELSE NoValue)

\* No capture with HTML, or n of them with the n - 1 similarities of the
\* adjacent pairs: values calculateTopicSimilarity returns (Math.round of a
\* mean of Jaccard percentages), around the thresholds.
TopicInputs ==
  {[op |-> "analyzeTopicStability", n |-> IF q = <<-1>> THEN 0 ELSE Len(q) + 1,
    similarities |-> IF q = <<-1>> THEN <<>> ELSE q,
    latest |-> l, result |-> Pending] :
     q \in {<<-1>>} \cup SeqsUpTo({0, 29, 39, 40, 100}, MaxCaptures - 1),
     l \in [missingTitle : BOOLEAN, suspiciousKeywords : {0, 1},
            missingMeta : BOOLEAN]}

ApplyAnalyzeTopicStability ==
  /\ calc.op = "analyzeTopicStability"
  /\ calc.result = Pending
  /\ calc' = [calc EXCEPT !.result = AnalyzeTopicStability(calc)]
  /\ UNCHANGED Rest

\* No session is running and no client call is followed.
CalcInit ==
  /\ mode = "spam"
  /\ domains = <<1>>
  /\ maxConcurrent = 1
  /\ maxSnapshots = 1
  /\ archive = Outcomes
  /\ phase = "idle"
  /\ queue = <<>>
  /\ active = {}
  /\ promises = {}
  /\ results = <<>>
  /\ returned = <<>>
  /\ pc = [t \in Tasks |-> "queued"]
  /\ loc = [t \in Tasks |-> InitLoc]
  /\ published = [t \in Tasks |-> <<>>]
  /\ domainStatuses = [d \in {} |-> <<>>]
  /\ snapshotCache = [k \in {} |-> EmptyHtml]
  /\ cacheSets = [k \in {} |-> <<>>]
  /\ completeAnalysisResults = <<>>
  /\ lastResultsHash = <<>>
  /\ completeEvent = <<>>
  /\ call = NoCall
  /\ stored = FALSE
  /\ feed = NoFeed
  /\ \/ calc \in CheckStopWordsInputs
     \/ calc \in RiskInputs
     \/ calc \in StopWordsInputs
     \/ calc \in MetricsInputs
     \/ calc \in TopicInputs

CalcNext ==
  \/ ApplyCheckStopWords
  \/ ApplyAssessRisk
  \/ ApplyStopWords
  \/ ApplyGetDomainMetrics
  \/ ApplyAnalyzeTopicStability

CalcSpec == CalcInit /\ [][CalcNext]_vars

\* ------------------------------------------------------------ observers
\* Positions whose pipeline has started and not yet returned.
Running == {t \in Tasks : pc[t] \notin {"queued", "done"}}

AllDone == \A t \in Tasks : pc[t] = "done"

\* Domains whose DomainStatus is neither QUEUED nor terminal.
InProgressDomains(terminal) ==
  {d \in DOMAIN domainStatuses :
     domainStatuses[d].status \notin ({"QUEUED"} \cup terminal)}

Terminal == IF mode = "spam" THEN SpamTerminal ELSE CompleteTerminal

\* The settled getSnapshotHtml calls of one loop, in call order.
LoopLog(t, lp) == SelectSeq(loc[t].fetchLog, LAMBDA e : e.loop = lp)

Fetched(t, lp, failed) ==
  Len(SelectSeq(LoopLog(t, lp), LAMBDA e : e.failed = failed))

\* The result processDomain pushed for position t.
ResultOf(t) == results[CHOOSE k \in DOMAIN results : results[k].run = t]

\* The spam pipeline of position t has returned.
SpamReturned(t) == loc[t].spamAnalysis.status # "none"

C2_ResolvesAfterAll ==
  phase = "resolved" =>
    /\ AllDone
    /\ \A k \in DOMAIN returned :
         /\ returned[k].run # 0
         /\ domains[returned[k].run] = domains[k]

\* ------------------------------------------------------------------ C3
\* C3: the complete feed writes the 'complete' event only when every domain
\* of the session has finished its pipeline, and the event carries each
\* domain's own result.
C3_CompleteEventAfterAll ==
  completeEvent # <<>> =>
    /\ AllDone
    /\ \A k \in DOMAIN completeEvent :
         /\ completeEvent[k].result.run # 0
         /\ domains[completeEvent[k].result.run] = domains[k]

\* ------------------------------------------------------------------ C4
\* C4: every domain of a batch is dequeued and its DomainStatus reaches a
\* terminal status; stated on finished batches: once every pipeline has
\* returned, nothing is left in the queue and every domain's status is
\* terminal.
C4_AllFinishTerminal ==
  AllDone =>
    /\ queue = <<>>
    /\ \A d \in DOMAIN domainStatuses : domainStatuses[d].status \in Terminal

\* ------------------------------------------------------------------ C5
\* C5: terminal statuses are absorbing: after a run has published a
\* terminal status, no later update of the same run publishes another
\* status.
C5_TerminalAbsorbing ==
  \A t \in Tasks :
    \A k \in 1..(Len(published[t]) - 1) :
      published[t][k] \in Terminal => published[t][k + 1] = published[t][k]

\* ------------------------------------------------------------------ C6
\* The stage of a status in the machine of the complete pipeline.
Stage(status) ==
  CASE status = "QUEUED" -> 0
    [] status = "FETCHING_SNAPSHOTS" -> 1
    [] status \in {"ANALYZING", "NO_SNAPSHOTS"} -> 2
    [] status = "ANALYZING_BACKLINKS" -> 3
    [] status = "ANALYZING_TOPICS" -> 4
    [] status = "ANALYZING_METRICS" -> 5
    [] status = "COMPLETE" -> 6
    [] status = "UNAVAILABLE" -> 7
    [] OTHER -> -1

\* C6: in the complete pipeline the statuses published for a domain form a
\* path of QUEUED -> FETCHING_SNAPSHOTS -> {NO_SNAPSHOTS | UNAVAILABLE |
\* ANALYZING} -> ANALYZING_BACKLINKS -> ANALYZING_TOPICS ->
\* ANALYZING_METRICS -> COMPLETE: no status outside the machine is
\* published and no earlier stage is re-entered after a later one.
C6_StatusPath ==
  mode = "complete" =>
    \A t \in Tasks :
      /\ \A k \in DOMAIN published[t] : Stage(published[t][k]) >= 0
      /\ \A k \in 1..(Len(published[t]) - 1) :
           Stage(published[t][k]) <= Stage(published[t][k + 1])

C8_SnapshotCounts ==
  \A t \in Tasks :
    /\ (loc[t].spamIndex.kind = "list" /\ loc[t].spamIndex.n > 0
          /\ SpamReturned(t)) =>
         LET r == loc[t].spamAnalysis
         IN /\ r.snapshotsFound = loc[t].spamIndex.n
            /\ r.snapshotsAnalyzed + r.failedSnapshots = r.snapshotsFound
            /\ r.snapshotsAnalyzed = Fetched(t, "spam", FALSE)
            /\ r.failedSnapshots = Fetched(t, "spam", TRUE)
            /\ r.snapshotsAnalyzed >= 1 =>
                 r.status \in {"CLEAN", "SUSPICIOUS", "SPAM"}
            /\ r.status = "UNAVAILABLE" <=> r.snapshotsAnalyzed = 0
    /\ "snapshotsAnalyzed" \in DOMAIN loc[t].spamStatus =>
         loc[t].spamStatus.snapshotsAnalyzed <= loc[t].spamStatus.snapshotsFound
    /\ \A d \in DOMAIN domainStatuses :
         "snapshotsAnalyzed" \in DOMAIN domainStatuses[d] =>
           domainStatuses[d].snapshotsAnalyzed <= domainStatuses[d].snapshotsFound

\* Two captures, one analysed and one failed: a scored result with 2/1/1.
C8_Witness ==
  \E t \in Tasks :
    /\ SpamReturned(t)
    /\ loc[t].spamIndex = [kind |-> "list", n |-> MaxSnapshots]
    /\ loc[t].spamAnalysis.snapshotsAnalyzed = 1
    /\ loc[t].spamAnalysis.failedSnapshots = MaxSnapshots - 1
    /\ loc[t].spamAnalysis.status \in {"CLEAN", "SUSPICIOUS", "SPAM"}

\* ------------------------------------------------------------------ C9
\* C9: every capture-level failure is caught and recorded with an error
\* note, and the pipeline goes on to the next capture in list order: each
\* failed getSnapshotHtml call of a run has its note in snapshotErrors, and
\* each loop visits the captures 1, 2, ... without a gap.
C9_FailuresRecorded ==
  \A t \in Tasks :
    /\ Fetched(t, "spam", TRUE) + Fetched(t, "prefetch", TRUE)
         = Len(loc[t].snapshotErrors)
    /\ \A lp \in {"spam", "prefetch"} :
         \A k \in DOMAIN LoopLog(t, lp) : LoopLog(t, lp)[k].capture = k

\* ----------------------------------------------------------------- C10
\* C10: in both pipelines a domain with no capture available, or with no
\* capture successfully analysed, finishes with status NO_SNAPSHOTS or
\* UNAVAILABLE, never with COMPLETE or a scored status.
C10_DomainFailureStatus ==
  \A t \in Tasks :
    (pc[t] = "done" /\ Fetched(t, "spam", FALSE) = 0) =>
      ResultOf(t).status \in {"NO_SNAPSHOTS", "UNAVAILABLE"}


\* ----------------------------------------------------------------- C11
\* The spam scores of the captures the spam loop of position t analysed.
AnalyzedScores(t) ==
  {SpamScore(LoopLog(t, "spam")[k].html) :
     k \in {j \in DOMAIN LoopLog(t, "spam") : ~LoopLog(t, "spam")[j].failed}}

MaxOf(S) == CHOOSE m \in S : \A x \in S : x <= m

\* C11: in the spam batch, a domain with at least one analysed capture
\* finishes CLEAN iff the maximum m of its captures' spam scores is below
\* 5, SUSPICIOUS iff 5 <= m < 8, and SPAM iff m >= 8.
C11_StatusByMaxScore ==
  \A t \in Tasks :
    (mode = "spam" /\ pc[t] = "done" /\ AnalyzedScores(t) # {}) =>
      LET m == MaxOf(AnalyzedScores(t))
          st == ResultOf(t).status
      IN /\ st \in {"CLEAN", "SUSPICIOUS", "SPAM"}
         /\ st = "CLEAN" <=> m < 5
         /\ st = "SUSPICIOUS" <=> (5 <= m /\ m < 8)
         /\ st = "SPAM" <=> m >= 8
         /\ published[t][Len(published[t])] = st

\* A domain whose first capture scores 8 and whose last scores 0 is SPAM.
C11_Witness ==
  \E t \in Tasks :
    /\ mode = "spam"
    /\ pc[t] = "done"
    /\ Len(LoopLog(t, "spam")) = 2
    /\ AnalyzedScores(t) = {0, 8}
    /\ SpamScore(LoopLog(t, "spam")[2].html) = 0
    /\ ResultOf(t).status = "SPAM"


\* ----------------------------------------------------------------- C12
\* The getSnapshotHtml calls in flight: position and cache key.
PendingFetches ==
  {t \in Tasks : pc[t] \in {"sp_fetch", "cp_fetch"}}

\* C12: after one successful getSnapshotHtml of a capture, every later call
\* for the same key on the same client returns the identical html without a
\* network request: a call that found the key cached returns the body of
\* the first successful fetch of that key.
C12_CacheIdempotent ==
  \A t \in PendingFetches :
    LET key == CacheKey(domains[t], loc[t].i)
    IN loc[t].pending.hit =>
         /\ key \in DOMAIN cacheSets
         /\ Resolutions(loc[t].pending) = {Served(cacheSets[key][1])}

\* ----------------------------------------------------------------- C13
\* C13: the fetch cache is write-once and additive-only under concurrency:
\* a key is set at most once, and an entry once set is neither replaced
\* nor removed by any step.
C13_CacheWriteOnce ==
  /\ \A key \in DOMAIN cacheSets : Len(cacheSets[key]) <= 1
  /\ \A key \in DOMAIN snapshotCache : snapshotCache[key] = cacheSets[key][1]


\* ----------------------------------------------------------------- C14
\* C14: getSnapshots under rate limiting: after a 429 on attempt 0, 1, 2 it
\* waits 2000, 4000, 8000 ms and retries, so it makes at most 4 index
\* requests; a 429 on the 4th fails with a rate-limit error; an ok answer
\* on any attempt returns that attempt's captures.
C14_IndexBackoff ==
  call.op = "getSnapshots" =>
    LET n == Len(call.responses)
    IN /\ Len(call.requests) <= 4
       /\ Len(call.waits) <= 3
       /\ \A k \in DOMAIN call.waits :
            /\ call.waits[k] = <<2000, 4000, 8000>>[k]
            /\ call.responses[k].status = "429"
       /\ \A k \in 1..(n - 1) : call.responses[k].status = "429"
       /\ Len(call.requests) = (IF call.at = "cdx" THEN n + 1 ELSE n)
       /\ (n > 0 /\ n < 4 /\ call.responses[n].status = "429") =>
            /\ call.at \in {"backoff", "cdx"}
            /\ Len(call.waits) = n
       /\ (n = 4 /\ call.responses[n].status = "429") =>
            /\ call.at = "thrown"
            /\ call.result = [kind |-> "error", error |-> "RateLimited"]
       /\ (n > 0 /\ call.responses[n].status = "ok") =>
            /\ call.at = "returned"
            /\ call.result = [kind |-> "captures", n |-> call.responses[n].n]

\* Four 429 answers: three waits, then the rate-limit error.
C14_Witness ==
  /\ call.op = "getSnapshots"
  /\ call.waits = <<2000, 4000, 8000>>
  /\ Len(call.requests) = 4
  /\ call.result = [kind |-> "error", error |-> "RateLimited"]

\* Two 429 answers, then captures.
C14_WitnessSuccess ==
  /\ call.op = "getSnapshots"
  /\ call.waits = <<2000, 4000>>
  /\ call.result = [kind |-> "captures", n |-> 1]


\* ----------------------------------------------------------------- C15
\* The requests of one kind the followed call has issued.
Issued(kind) == Len(SelectSeq(call.requests, LAMBDA q : q = kind))

\* C15: in getSnapshotHtml each network call is retried at most once after
\* a 429: one call backs off at most once, requests each of the raw and the
\* wrapper URL at most twice, and a 429 that persists ends it with the
\* rate-limit error after that single retry.
C15_SingleRetry ==
  call.op = "getSnapshotHtml" =>
    /\ Len(call.waits) <= 1
    /\ Issued("raw") <= 2
    /\ Issued("wrapper") <= 2

\* ----------------------------------------------------------------- C16
\* An extraction request that did not yield the page: it failed, timed
\* out, or was answered with too short a body or with another wrapper.
FailedAttempt(r) == r.status # "ok" \/ r.body # "page"

\* The followed call went to the standard wrapper URL and got a wrapper.
WrapperFromWrapperUrl ==
  /\ call.op = "getSnapshotHtml"
  /\ call.wrapper # "none"
  /\ \E k \in DOMAIN call.requests :
       /\ call.requests[k] = "wrapper"
       /\ \A j \in (k + 1)..Len(call.requests) :
            call.requests[j] \in {"iframe", "rawvariant", "selector"}

\* C16: when the wrapper URL returns a wrapper page and every extraction
\* attempt fails, returns a too-short body, returns another wrapper or
\* times out, getSnapshotHtml raises no error: once no attempt is left it
\* returns the wrapper html itself, and that html is what the cache holds.
C16_WrapperFallback ==
  (WrapperFromWrapperUrl
     /\ \A k \in DOMAIN call.answers : FailedAttempt(call.answers[k])) =>
    /\ call.at \in {"extract_wrapper", "returned"}
    /\ call.at = "extract_wrapper" =>
         Len(call.answers) < Len(ExtractionRequests(call.wrapper))
    /\ call.at = "returned" =>
         /\ call.result = [kind |-> "html", html |-> call.wrapper]
         /\ CacheLookup(snapshotCache, CallKey)
              = [hit |-> TRUE, html |-> call.wrapper]

\* The wrapper is returned after the frame request timed out, the raw
\* variant was too short, and the selector requests gave another wrapper
\* and an HTTP error.
C16_Witness ==
  /\ WrapperFromWrapperUrl
  /\ call.at = "returned"
  /\ call.wrapper = "wrapper"
  /\ Len(call.answers) = 4
  /\ call.answers[1].status = "timeout"
  /\ call.answers[2] = [status |-> "ok", body |-> "short"]
  /\ call.answers[3] = [status |-> "ok", body |-> "wrapper"]
  /\ call.answers[4].status = "http_error"
  /\ call.result = [kind |-> "html", html |-> "wrapper"]

\* ----------------------------------------------------------------- C19
\* C19: every worker writes the status map only under the key of the
\* domain it is processing (each entry is a record of the domain it is
\* keyed by), and no two workers that are active at the same
\* time write the same key, whatever list of domains the batch was given.
C19_OwnKeyOnly ==
  /\ \A d \in DOMAIN domainStatuses :
       d \in DomainNames /\ domainStatuses[d].domain = d
  /\ \A t \in Running : \A u \in Running :
       t # u => domains[t] # domains[u]

\* ----------------------------------------------------------------- C18
\* C18: every network call of a domain's pipeline is bounded by a timeout,
\* so even when a remote service never responds, a domain whose pipeline
\* has started does not block for ever: its pipeline ends.
C18_TimeoutBound ==
  \A t \in 1..MaxDomains :
    (t \in Tasks /\ pc[t] \notin {"queued", "done"})
      ~> (t \in Tasks /\ pc[t] = "done")

\* ----------------------------------------------------------------- C17
\* A capture fetch is issued for position t in this step.
FetchIssued(t) ==
  /\ pc'[t] \in {"sp_fetch", "cp_fetch"}
  /\ loc'[t].i # loc[t].i

\* C17: once the consumer has closed the status stream of a running
\* batch (a stream that had sent it statuses), the workers observe it between domains and between captures: no queued
\* domain is started and no further capture fetch is issued.
C17_CancelObserved ==
  [][(phase = "running" /\ feed.conn = "closed" /\ feed.sent # <<>>) =>
       \A t \in Tasks :
         /\ pc[t] = "queued" => pc'[t] = "queued"
         /\ ~FetchIssued(t)]_vars

\* ----------------------------------------------------------------- C20
\* A consumer is connected and a status written by a worker has not been
\* delivered to it, nor a later status of the same domain.
Behind == feed.conn = "open" /\ feed.sent # domainStatuses

\* C20: most recent status eventually visible: under any interleaving of
\* worker writes, polls, connects, disconnects and their delayed clean-up,
\* a connected consumer that is behind the status map gets the statuses it
\* lacks (or stops being connected).
C20_MostRecentVisible == Behind ~> ~Behind

\* ----------------------------------------------------------------- C21
\* The distinct stop words of a list, lower-cased and trimmed, that occur
\* in the lower-cased text.
MatchedWords(text, stopWords) ==
  {w \in {Trim(ToLowerCase(stopWords[k])) : k \in DOMAIN stopWords} :
     w # <<>> /\ Includes(ToLowerCase(text), w)}

\* The number of occurrences of a word in a text: the most positions it
\* occurs at without two of them overlapping.
Occurrences(text, word) ==
  LET at == {i \in 1..Len(text) : OccursAt(ToLowerCase(text), word, i)}
      apart == {P \in SUBSET at :
                  \A i \in P : \A j \in P : i < j => j - i >= Len(word)}
  IN CHOOSE n \in 0..Len(text) :
       /\ \E P \in apart : Cardinality(P) = n
       /\ \A P \in apart : Cardinality(P) <= n

RECURSIVE SumOver(_, _, _)
SumOver(S, text, acc) ==
  IF S = {} THEN acc
  ELSE LET w == CHOOSE x \in S : TRUE
       IN SumOver(S \ {w}, text, acc + Occurrences(text, w))

\* C21: spam score formula: with u the number of distinct stop words found
\* (case-insensitive substring match) and t their total occurrences, the
\* score is 10 if t > 10, min(10, 2u + 2) if 5 < t <= 10 and min(10, 2u)
\* otherwise, and found lists each matched word once with its occurrence
\* count.
C21_ScoreFormula ==
  (calc.op = "checkStopWords" /\ calc.result # Pending) =>
    LET r == calc.result
        matched == MatchedWords(calc.text, calc.stopWords)
        u == Cardinality(matched)
        t == SumOver(matched, calc.text, 0)
    IN /\ r.score = (IF t > 10 THEN 10
                     ELSE IF t > 5 THEN Min(10, 2 * u + 2)
                     ELSE Min(10, 2 * u))
       /\ {r.found[k].word : k \in DOMAIN r.found} = matched
       /\ Len(r.found) = u
       /\ r.count = u
       /\ \A k \in DOMAIN r.found :
            r.found[k].count = Occurrences(calc.text, r.found[k].word)

\* Six distinct words are found with 9 occurrences in all: the bonus caps
\* at 10; one of the words is listed twice, in another case, and the list
\* has a blank word.
C21_Witness ==
  /\ calc.op = "checkStopWords"
  /\ calc.result # Pending
  /\ Len(calc.stopWords) = 8
  /\ calc.result.count = 6
  /\ TotalOccurrences(calc.result.found) = 9
  /\ calc.result.score = 10

\* ----------------------------------------------------------------- C22
\* C22: the spam score lies in [0,10] and is non-decreasing in the number
\* of unique matched words: with the same total of occurrences, a result
\* with fewer distinct words found never has a higher score.
C22_ScoreMonotone ==
  (calc.op = "checkStopWords" /\ calc.result # Pending) =>
    LET r == calc.result
    IN /\ r.score \in 0..10
       /\ \A fewer \in 1..Len(r.found) :
            LET first == SubSeq(r.found, 1, fewer)
                spread == [first EXCEPT
                             ![1].count = @ + TotalOccurrences(r.found)
                                            - TotalOccurrences(first)]
            IN /\ TotalOccurrences(spread) = TotalOccurrences(r.found)
               /\ StopWordsScore(spread) <= r.score

\* Four words found with more than 10 occurrences in all.
C22_Witness ==
  /\ calc.op = "checkStopWords"
  /\ calc.result # Pending
  /\ calc.result.count = 4
  /\ TotalOccurrences(calc.result.found) > 10
  /\ calc.result.score = 10

\* ----------------------------------------------------------------- C23
Assessed == calc.op = "assessRisk" /\ calc.result # Pending

\* The number of red flags of a severity.
FlagCount(severity) ==
  Cardinality({k \in DOMAIN calc.redFlags : calc.redFlags[k] = severity})

\* C23: for every list of topic red flags, redFlagPenalty is
\* min(30, 15 * #high + 8 * #medium + 3 * #low), hence never above 30.
C23_PenaltyCapped ==
  Assessed =>
    /\ calc.result.redFlagPenalty
         = Min(30, 15 * FlagCount("high") + 8 * FlagCount("medium")
                     + 3 * FlagCount("low"))
    /\ calc.result.redFlagPenalty <= 30

\* Three high flags: their sum of 45 is cut to 30.
C23_Witness ==
  /\ Assessed
  /\ calc.redFlags = <<"high", "high", "high">>
  /\ calc.result.redFlagPenalty = 30

\* ----------------------------------------------------------------- C24
\* C24: for every combination of present and absent risk factors, factor
\* values and red flags, the overallRiskScore returned is a number in
\* [0,100].
C24_ScoreInRange == Assessed => calc.result.overallRiskScore \in 0..100

\* Every factor is at its worst and the penalty is 30 on top: the score is
\* held at 100.
C24_Witness ==
  /\ Assessed
  /\ Len(calc.result.riskFactors) = 4
  /\ \A k \in 1..4 : calc.result.riskFactors[k].value = 100
  /\ calc.result.redFlagPenalty = 30
  /\ calc.result.overallRiskScore = 100

\* ----------------------------------------------------------------- C25
\* C25: riskLevel is HIGH iff the score is at least 70 or the
\* recommendation is AVOID, otherwise MEDIUM iff the score is at least 40
\* or the recommendation is CAUTION, otherwise LOW; AVOID implies HIGH.
C25_RiskLevel ==
  Assessed =>
    LET r == calc.result
    IN /\ r.riskLevel = "HIGH"
            <=> (r.overallRiskScore >= 70 \/ r.recommendation = "AVOID")
       /\ r.riskLevel = "MEDIUM"
            <=> /\ ~(r.overallRiskScore >= 70 \/ r.recommendation = "AVOID")
                /\ (r.overallRiskScore >= 40 \/ r.recommendation = "CAUTION")
       /\ r.riskLevel \in {"HIGH", "MEDIUM", "LOW"}
       /\ r.recommendation = "AVOID" => r.riskLevel = "HIGH"

\* AVOID for spam content alone, with a score below 40: the level is HIGH.
C25_Witness ==
  /\ Assessed
  /\ calc.result.recommendation = "AVOID"
  /\ calc.result.overallRiskScore < 40
  /\ calc.result.riskLevel = "HIGH"

\* ----------------------------------------------------------------- C26
\* C26: the recommendation is decided solely by the first matching rule:
\* spam risk >= 80 AVOID, spam risk >= 50 AVOID, redFlagPenalty >= 20
\* AVOID, score >= 70 AVOID, >= 55 CAUTION, >= 25 REVIEW, otherwise BUY;
\* so with spam risk < 50, penalty < 20 and score < 25 it is BUY.
C26_FirstRuleDecides ==
  Assessed =>
    LET r == calc.result
        spam == IF r.spamRisk.has THEN r.spamRisk.v ELSE 0
    IN r.recommendation =
         (IF spam >= 50 THEN "AVOID"
          ELSE IF r.redFlagPenalty >= 20 THEN "AVOID"
          ELSE IF r.overallRiskScore >= 70 THEN "AVOID"
          ELSE IF r.overallRiskScore >= 55 THEN "CAUTION"
          ELSE IF r.overallRiskScore >= 25 THEN "REVIEW"
          ELSE "BUY")

\* ----------------------------------------------------------------- C27
\* How often a word is in a list.
TimesIn(list, word) == Cardinality({k \in DOMAIN list : list[k] = word})

\* C27: for both start operations the stop-word list the run uses is the
\* case-normalized, de-duplicated union of the default list and the
\* caller's custom words: every custom word appears, lower-cased, exactly
\* once, every default word exactly once, and nothing else.
C27_StopWordsUnion ==
  (calc.op = "stopWords" /\ calc.result # Pending) =>
    LET list == calc.result.list
        custom == {ToLowerCase(Trim(calc.stopWords.words[k])) :
                     k \in DOMAIN calc.stopWords.words} \ {<<>>}
        default == {DefaultStopWords[k] : k \in DOMAIN DefaultStopWords}
    IN /\ \A w \in custom \cup default : TimesIn(list, w) = 1
       /\ \A k \in DOMAIN list : list[k] \in custom \cup default

\* ----------------------------------------------------------------- C28
\* C28: whenever a domain's pipeline run has returned a result, the last
\* status it published through the status callback is the status of that
\* result, for every outcome, and the status map keeps no non-terminal
\* status for a domain all of whose runs have returned.
C28_LastStatusIsResult ==
  \A t \in Tasks :
    pc[t] = "done" =>
      /\ published[t][Len(published[t])] = ResultOf(t).status
      /\ (\A u \in Tasks : domains[u] = domains[t] => pc[u] = "done") =>
           domainStatuses[domains[t]].status \in Terminal


\* ----------------------------------------------------------------- C29
\* Position t has been handed to processDomain.
Started(t) == pc[t] # "queued"

\* The run of position t returns in this step.
Finishes(t) == pc[t] \notin {"queued", "done"} /\ pc'[t] = "done"

\* Position u is handed to processDomain in this step.
Starts(u) == pc[u] = "queued" /\ pc'[u] # "queued"

\* C29: domains are dequeued in FIFO order. For input positions i < j,
\* position i has started whenever position j has; once the batch runs, a
\* queued position starts exactly in a step in which a running pipeline
\* returns (one position per returning pipeline, the oldest queued one),
\* and a started position is never queued or started again.
C29_FifoDequeue ==
  [][ /\ \A i, j \in Tasks : (i < j /\ Started(j)') => Started(i)'
      /\ \A u \in Tasks : Started(u) => Started(u)'
      /\ phase = "running" =>
           LET waiting == {u \in Tasks : ~Started(u)}
               starting == {u \in Tasks : Starts(u)}
               finishing == {t \in Tasks : Finishes(t)}
           IN /\ starting # {} => Cardinality(finishing) = 1
              /\ (finishing # {} /\ waiting # {}) =>
                   /\ Cardinality(starting) = 1
                   /\ \A u \in starting : \A w \in waiting : u <= w
    ]_vars

\* Two positions waited behind a single worker, the older of them has been
\* started by a returning pipeline and the younger still waits.
C29_Witness ==
  /\ Len(domains) = MaxDomains
  /\ maxConcurrent = 1
  /\ pc[1] = "done"
  /\ pc[2] \notin {"queued", "done"}
  /\ pc[3] = "queued"
  /\ queue = <<3>>


\* ----------------------------------------------------------------- C30
\* The run of position t issues the fetch of a capture after the first of
\* its loop in this step.
IssuesLaterFetch(t) ==
  /\ pc'[t] \in {"sp_fetch", "cp_fetch"}
  /\ loc'[t].i # loc[t].i
  /\ loc'[t].i > 1

\* C30: within one domain's pipeline the fixed delay elapses between any
\* two consecutive capture fetches of a loop, after a capture that failed
\* as after one that succeeded, in the spam scoring loop and in the complete
\* pipeline's HTML pre-fetch loop: a later fetch of a loop is issued only by
\* the step in which the delay's timer fires.
C30_DelayBetweenFetches ==
  [][\A t \in Tasks : IssuesLaterFetch(t) => pc[t] = "sp_delay"]_vars


\* ----------------------------------------------------------------- C31
\* The network requests under way on behalf of the run of position t.
InFlight(t) ==
  IF pc[t] \in {"sp_index", "cp_index"} THEN {"index"}
  ELSE IF pc[t] \in {"sp_fetch", "cp_fetch"}
  THEN (IF loc[t].pending.hit THEN {} ELSE {"capture"})
  ELSE IF pc[t] = "cp_metrics" THEN loc[t].metricsPending
  ELSE {}

\* C31: within one domain's pipeline run all network work is sequential: at
\* every instant at most one request issued for that run is in flight, in
\* the capture index query, the capture fetches and the metrics lookups.
C31_OneRequestInFlight ==
  \A t \in Tasks : Cardinality(InFlight(t)) <= 1


\* ----------------------------------------------------------------- C32
\* The requests of the strategies proper, as opposed to those of the
\* embedded-frame extraction.
StrategyRequests == {"raw", "wrapper"}

\* C32: on a cache miss getSnapshotHtml tries its strategies in a fixed
\* order.  The raw URL is requested first; its content is the result only
\* if it is not a wrapper page; when the raw request failed (other than by
\* the timeout that ends the call) or returned a wrapper page, the wrapper
\* URL is requested next; and extraction requests are made only for HTML
\* detected as a wrapper.
C32_StrategyOrder ==
  (call.op = "getSnapshotHtml" /\ call.requests # <<>>) =>
    /\ call.requests[1] = "raw"
    /\ \A k \in 1..(Len(call.requests) - 1) :
         call.requests[k] = "raw" => call.requests[k + 1] \in StrategyRequests
    /\ (call.at = "returned" /\ \A k \in DOMAIN call.requests :
                                   call.requests[k] # "wrapper")
         => ~IsWaybackWrapperHtml(call.result.html)
    /\ (\E k \in DOMAIN call.requests : call.requests[k] \notin StrategyRequests)
         => IsWaybackWrapperHtml(call.wrapper)


\* ----------------------------------------------------------------- C33
\* The answers of the index that are neither a success nor a 429.
IndexFailures == {"http_error", "network_error", "timeout"}

\* C33: getSnapshots fails without a retry on any answer of the index other
\* than a success or a 429 (the failing answer is the last one and no
\* request follows it), and returns an empty list, not an error, for a
\* success without records; the spam pipeline ends with UNAVAILABLE and
\* snapshotsFound = 0 after a failed index query and with NO_SNAPSHOTS
\* after an empty list.
C33_IndexOutcomes ==
  call.op = "getSnapshots" =>
    LET n == Len(call.responses)
        t == 1
    IN /\ \A k \in DOMAIN call.responses :
            call.responses[k].status \in IndexFailures =>
              /\ k = n
              /\ Len(call.requests) = k
              /\ call.at = "thrown"
              /\ call.result.kind = "error"
       /\ (n > 0 /\ call.responses[n] = [status |-> "ok", n |-> 0]) =>
            /\ call.at = "returned"
            /\ call.result = [kind |-> "captures", n |-> 0]
       /\ (pc[t] = "done" /\ call.at = "thrown") =>
            /\ ResultOf(t).status = "UNAVAILABLE"
            /\ ResultOf(t).snapshotsFound = 0
            /\ domainStatuses[domains[t]].status = "UNAVAILABLE"
            /\ domainStatuses[domains[t]].snapshotsFound = 0
       /\ (pc[t] = "done" /\ call.result = [kind |-> "captures", n |-> 0]) =>
            /\ ResultOf(t).status = "NO_SNAPSHOTS"
            /\ domainStatuses[domains[t]].status = "NO_SNAPSHOTS"

\* The index answered 429 and then an HTTP error: the call failed on the
\* second request and the pipeline ended with UNAVAILABLE.
C33_Witness ==
  /\ call.op = "getSnapshots"
  /\ Len(call.responses) = 2
  /\ call.responses[2].status = "http_error"
  /\ call.at = "thrown"
  /\ pc[1] = "done"
  /\ ResultOf(1).status = "UNAVAILABLE"

\* The index answered with no records and the pipeline ended with
\* NO_SNAPSHOTS.
C33_WitnessEmpty ==
  /\ call.op = "getSnapshots"
  /\ call.result = [kind |-> "captures", n |-> 0]
  /\ pc[1] = "done"
  /\ ResultOf(1).status = "NO_SNAPSHOTS"


\* ----------------------------------------------------------------- C34
\* The sub-metrics getDomainMetrics obtained for its input: the rating,
\* doubled and capped at 100, when the rank lookup gave one, the domain
\* authority and the trust flow.
ObtainedMetrics(in) ==
  (IF in.opr.ok /\ in.opr.rank # 0 THEN <<Min(100, 2 * in.opr.rank)>> ELSE <<>>)
    \o <<DomainAuthorityMetrics(in.ext, in.httpsOk, in.random),
         TrustFlowMetrics(in.ext, in.averageQualityScore)>>

\* C34: overallQualityScore is the mean of exactly the sub-metrics that
\* were obtained; when the rank lookup fails or returns nothing the rating
\* is skipped and the score is still a number in 0..100, the mean of the
\* others.
C34_QualityScoreMean ==
  (calc.op = "getDomainMetrics" /\ calc.result # Pending) =>
    LET obtained == ObtainedMetrics(calc)
        score == calc.result.overallQualityScore
    IN /\ score.kind = "number"
       /\ score.v \in 0..100
       /\ score.v = RoundQuotient(SumSeq(obtained), Len(obtained), 1)


\* ----------------------------------------------------------------- C35
\* The topic analysis raised the 'unstable topics' flag, with severity high.
UnstableFlagged(result) ==
  \E k \in DOMAIN result.redFlags :
    result.redFlags[k] = [type |-> "unstable_topics", severity |-> "high"]

\* C35: the 'unstable topics' flag is raised for the latest capture exactly
\* when more than half of all the similarities of adjacent captures in the
\* history are below 40, whatever the number of captures and the
\* similarities.
C35_UnstableTopics ==
  (calc.op = "analyzeTopicStability" /\ calc.result # Pending) =>
    LET pairs == DOMAIN calc.similarities
        below == {k \in pairs : calc.similarities[k] < 40}
    IN UnstableFlagged(calc.result)
         <=> 2 * Cardinality(below) > Cardinality(pairs)

C37_EntryPerInput ==
  phase = "resolved" =>
    /\ Len(returned) = Len(domains)
    /\ \A k \in DOMAIN returned :
         /\ returned[k].domain = domains[k]
         /\ returned[k].run = k


\* ----------------------------------------------------------------- C38
\* The captures of one loop of position t whose fetch did not fail.
CapturesOf(t, lp) ==
  {LoopLog(t, lp)[k].capture :
     k \in {j \in DOMAIN LoopLog(t, lp) : ~LoopLog(t, lp)[j].failed}}

\* C38: in the complete pipeline the captures scored for spam are the
\* captures whose HTML feeds the backlink and topic analyses: the capture
\* index is consulted once per domain run (the spam analysis makes no query
\* of its own), and the snapshotsAnalyzed of the result is the number of
\* captures whose HTML was handed to the backlink and topic analyzers.
C38_SameCaptures ==
  \A t \in Tasks :
    (mode = "complete" /\ pc[t] = "done" /\ ResultOf(t).status = "COMPLETE") =>
      /\ loc[t].spamIndex.kind = "none"
      /\ CapturesOf(t, "spam") = CapturesOf(t, "prefetch")
      /\ ResultOf(t).snapshotsAnalyzed = Len(loc[t].snapshotsWithHtml)


\* ----------------------------------------------------------------- C39
\* C39: a getSnapshotHtml call that fails (timeout, exhausted rate limit,
\* fetch failure) leaves the cache as it was: the cache changes only in the
\* step in which the call returns a result, and then by that result under
\* the capture's key; after a failed call a lookup of the capture misses,
\* so a later call makes a fresh network attempt.
C39_FailureNotCached ==
  [][ /\ snapshotCache' # snapshotCache =>
           /\ call'.op = "getSnapshotHtml"
           /\ call'.at = "returned"
           /\ snapshotCache' = CacheSet(snapshotCache, CallKey, call'.result.html)
      /\ (call'.op = "getSnapshotHtml" /\ call'.at = "thrown") =>
           /\ snapshotCache' = snapshotCache
           /\ cacheSets' = cacheSets
           /\ ~CacheLookup(snapshotCache', CallKey).hit
    ]_vars

\* A call that was rate limited, waited, and then failed on the wrapper
\* URL: the cache has no entry for the capture.
C39_Witness ==
  /\ call.op = "getSnapshotHtml"
  /\ call.at = "thrown"
  /\ call.result.error = "FetchFailed"
  /\ Len(call.waits) > 0
  /\ Len(call.requests) > 2
  /\ CallKey \notin DOMAIN snapshotCache

====
